---------------------------- MODULE Spec2Model ----------------------------
(***************************************************************************)
(* Model of rdplauncher's registry transaction manager                     *)
(* (internal/registry/registry.go), its backup file, and the service       *)
(* lifecycle orchestrator (internal/service/service.go).                   *)
(*                                                                         *)
(* Conventions.  A Go interface{} value is a record [kind, v]: kind is the *)
(* dynamic type ("nil", "string", "uint32", "uint64", "float64", "bytes"), *)
(* v is the payload written as text (numbers in decimal).  A registry      *)
(* value is [type, data] with the REG_* type it is stored under.  A JSON   *)
(* value is [j, text] with j in "null", "string", "number".                *)
(***************************************************************************)
EXTENDS Integers, Sequences, FiniteSets, TLC

----------------------------------------------------------------------------
(* Bounds of the model *)

\* number of items (empty keys, named values) present before the first command
MaxPre == 1
\* number of install commands in a run
MaxInstalls == 1
\* most milliseconds a sleep and the status query after it take beyond the
\* poll interval
MaxLag == 1
\* number of control requests the service manager sends to Execute
MaxRequests == 3

----------------------------------------------------------------------------
(* Hives, value types, key paths *)

LOCAL_MACHINE == "HKLM"
CURRENT_USER == "HKCU"

SZ == "SZ"
EXPAND_SZ == "EXPAND_SZ"
BINARY == "BINARY"
DWORD == "DWORD"
QWORD == "QWORD"

PathLauncher == "SOFTWARE\\RDPLauncher"
PathAllowList == "SOFTWARE\\Microsoft\\Windows NT\\CurrentVersion\\Terminal Server\\TSAppAllowList"
PathTermServices == "SOFTWARE\\Policies\\Microsoft\\Windows NT\\Terminal Services"
PathWinlogon == "SOFTWARE\\Microsoft\\Windows NT\\CurrentVersion\\Winlogon"
PathKeyboard == "SYSTEM\\CurrentControlSet\\Control\\Keyboard Layout"
PathNetwork == "SYSTEM\\CurrentControlSet\\Control\\Network"
PathNetOff == "SYSTEM\\CurrentControlSet\\Control\\Network\\NewNetworkWindowOff"
PathUser == "SOFTWARE\\RDPLauncher\\User"

----------------------------------------------------------------------------
(* Go values and their JSON encoding *)

\* F applied to the value of v, with v evaluated once
With(v, F(_)) == CHOOSE y \in {F(x) : x \in {v}} : TRUE

GoNil == [kind |-> "nil", v |-> ""]
GoString(s) == [kind |-> "string", v |-> s]
GoUint32(n) == [kind |-> "uint32", v |-> n]
GoUint64(n) == [kind |-> "uint64", v |-> n]
GoBytes(b) == [kind |-> "bytes", v |-> b]
GoFloat64(n) == [kind |-> "float64", v |-> n]

\* json.Marshal of an interface{} field
Marshal(value) ==
    CASE value.kind = "nil" -> [j |-> "null", text |-> ""]
      [] value.kind \in {"string", "bytes"} -> [j |-> "string", text |-> value.v]
      [] OTHER -> [j |-> "number", text |-> value.v]

\* json.Unmarshal into an interface{} field: every number becomes a float64
Unmarshal(jv) ==
    CASE jv.j = "null" -> GoNil
      [] jv.j = "string" -> GoString(jv.text)
      [] OTHER -> GoFloat64(jv.text)

----------------------------------------------------------------------------
(* Configuration and the entry catalog *)

DecimalTexts == {"0", "1", "8080", "8085", "9090"}

\* strconv.ParseUint(s, 10, 32) with the error dropped: 0 on failure
ParseUint(s) == IF s \in DecimalTexts THEN s ELSE "0"

ConfigNew ==
    [ServerPort |-> "8080",
     InstallPath |-> "C:\\Program Files\\RDPLauncher",
     DataDirectory |-> "C:\\ProgramData\\RDPLauncher"]

Entry(root, path, name, value, type) ==
    [Root |-> root, Path |-> path, Name |-> name, Value |-> value, Type |-> type]

\* NewManager storing the port as the text it was configured with
NewManager_PortAsText(installPath, serverPort, dataDir) ==
    [entries |->
        << Entry(LOCAL_MACHINE, PathLauncher, "InstallPath", GoString(installPath), SZ),
           Entry(LOCAL_MACHINE, PathLauncher, "ServerPort", GoString(serverPort), DWORD),
           Entry(LOCAL_MACHINE, PathLauncher, "EnableLogging", GoUint32("1"), DWORD),
           Entry(LOCAL_MACHINE, PathAllowList, "fDisabledAllowList", GoUint32("1"), DWORD),
           Entry(LOCAL_MACHINE, PathTermServices, "fAllowUnlistedRemotePrograms", GoUint32("1"), DWORD),
           Entry(LOCAL_MACHINE, PathWinlogon, "AutoAdminLogon", GoString("0"), SZ),
           Entry(LOCAL_MACHINE, PathKeyboard, "IgnoreRemoteKeyboardLayout", GoUint32("1"), DWORD),
           Entry(LOCAL_MACHINE, PathNetOff, "", GoString(""), SZ),
           Entry(CURRENT_USER, PathUser, "LastRun", GoString(""), SZ) >>,
     backupPath |-> <<dataDir, "registry_backup.json">>]

NewManager(installPath, serverPort, dataDir) ==
    [entries |->
        << Entry(LOCAL_MACHINE, PathLauncher, "InstallPath", GoString(installPath), SZ),
           Entry(LOCAL_MACHINE, PathLauncher, "ServerPort", GoUint32(serverPort), DWORD),
           Entry(LOCAL_MACHINE, PathLauncher, "EnableLogging", GoUint32("1"), DWORD),
           Entry(LOCAL_MACHINE, PathAllowList, "fDisabledAllowList", GoUint32("1"), DWORD),
           Entry(LOCAL_MACHINE, PathTermServices, "fAllowUnlistedRemotePrograms", GoUint32("1"), DWORD),
           Entry(LOCAL_MACHINE, PathWinlogon, "AutoAdminLogon", GoString("0"), SZ),
           Entry(LOCAL_MACHINE, PathKeyboard, "IgnoreRemoteKeyboardLayout", GoUint32("1"), DWORD),
           Entry(LOCAL_MACHINE, PathNetOff, "", GoString(""), SZ),
           Entry(CURRENT_USER, PathUser, "LastRun", GoString(""), SZ) >>,
     backupPath |-> <<dataDir, "registry_backup.json">>]

\* the manager every command builds from the configuration
regMgr == NewManager(ConfigNew.InstallPath, ParseUint(ConfigNew.ServerPort), ConfigNew.DataDirectory)

Catalog == regMgr.entries
NEntries == Len(Catalog)

KeyOf(e) == <<e.Root, e.Path>>
SlotOf(e) == <<e.Root, e.Path, e.Name>>


----------------------------------------------------------------------------
(* The registry: the keys that exist and the named values they hold *)

KNetwork == <<LOCAL_MACHINE, PathNetwork>>
KNetOff == <<LOCAL_MACHINE, PathNetOff>>
KUserParent == <<CURRENT_USER, PathLauncher>>
KUser == <<CURRENT_USER, PathUser>>
KLauncher == <<LOCAL_MACHINE, PathLauncher>>
KWinlogon == <<LOCAL_MACHINE, PathWinlogon>>
KAllowList == <<LOCAL_MACHINE, PathAllowList>>

CatalogKeys == {KeyOf(Catalog[i]) : i \in 1..NEntries}

\* the keys above a key that the model tracks (all others always exist)
Ancestors(k) ==
    IF k = KNetOff THEN {KNetwork}
    ELSE IF k = KUser THEN {KUserParent}
    ELSE {}

AllKeys == CatalogKeys \cup UNION {Ancestors(k) : k \in CatalogKeys}

\* a value name that does not belong to the catalog
OtherName == "ThirdParty"

NamedSlots == {SlotOf(Catalog[i]) : i \in {j \in 1..NEntries : Catalog[j].Name # ""}}
OtherSlots == {<<k[1], k[2], OtherName>> : k \in {KLauncher, KUser, KWinlogon}}
Slots == NamedSlots \cup OtherSlots

SlotKey(s) == <<s[1], s[2]>>

NoValue == [type |-> "NONE", data |-> ""]

\* faults of the environment: keys that cannot be opened for writing or
\* deleted, keys whose values cannot be set or deleted, and a data directory
\* that cannot be written
NoFaults == [open |-> {}, set |-> {}, nosave |-> FALSE]

\* registry.OpenKey(root, path, QUERY_VALUE)
OpenKey(r, k) == k \in r.keys

\* registry.OpenKey(root, path, SET_VALUE)
OpenKeyForWrite(r, k, d) == k \in r.keys /\ k \notin d.open

\* registry.CreateKey(root, path, SET_VALUE): creates the key and the missing
\* keys above it
CreateKey(r, k, d) ==
    IF k \in d.open
    THEN [ok |-> FALSE, reg |-> r]
    ELSE [ok |-> TRUE, reg |-> [r EXCEPT !.keys = @ \cup {k} \cup Ancestors(k)]]

\* Key.GetStringValue
GetStringValue(r, s) ==
    IF s \in Slots /\ r.vals[s].type \in {SZ, EXPAND_SZ}
    THEN [ok |-> TRUE, val |-> r.vals[s].data]
    ELSE [ok |-> FALSE, val |-> ""]

\* Key.GetIntegerValue
GetIntegerValue(r, s) ==
    IF s \in Slots /\ r.vals[s].type \in {DWORD, QWORD}
    THEN [ok |-> TRUE, val |-> r.vals[s].data]
    ELSE [ok |-> FALSE, val |-> ""]

\* Key.GetBinaryValue
GetBinaryValue(r, s) ==
    IF s \in Slots /\ r.vals[s].type = BINARY
    THEN [ok |-> TRUE, val |-> r.vals[s].data]
    ELSE [ok |-> FALSE, val |-> ""]

\* Key.SetStringValue, SetExpandStringValue, SetDWordValue, SetQWordValue,
\* SetBinaryValue: store data under the given REG_* type
SetValue(r, s, type, data, d) ==
    IF SlotKey(s) \in d.set \/ s \notin Slots
    THEN [ok |-> FALSE, reg |-> r]
    ELSE [ok |-> TRUE, reg |-> [r EXCEPT !.vals[s] = [type |-> type, data |-> data]]]

\* Key.DeleteValue: err is "", "ErrNotExist" or "denied"
DeleteValue(r, s, d) ==
    IF s \notin Slots \/ r.vals[s] = NoValue
    THEN [err |-> "ErrNotExist", reg |-> r]
    ELSE IF SlotKey(s) \in d.set
    THEN [err |-> "denied", reg |-> r]
    ELSE [err |-> "", reg |-> [r EXCEPT !.vals[s] = NoValue]]

\* Key.ReadValueNames(0)
ReadValueNames(r, k) == {s[3] : s \in {t \in Slots : SlotKey(t) = k /\ r.vals[t] # NoValue}}

\* registry.DeleteKey: a key with subkeys cannot be deleted
DeleteKey(r, k, d) ==
    IF k \notin r.keys
    THEN [err |-> "ErrNotExist", reg |-> r]
    ELSE IF k \in d.open \/ (\E c \in r.keys : k \in Ancestors(c))
    THEN [err |-> "denied", reg |-> r]
    ELSE [err |-> "", reg |-> [r EXCEPT !.keys = @ \ {k}]]

----------------------------------------------------------------------------
(* registry.Manager: typed read and write *)

readValue(r, s, valueType) ==
    CASE valueType \in {SZ, EXPAND_SZ} ->
            IF GetStringValue(r, s).ok THEN GoString(GetStringValue(r, s).val) ELSE GoNil
      [] valueType = DWORD ->
            IF GetIntegerValue(r, s).ok THEN GoUint32(GetIntegerValue(r, s).val) ELSE GoNil
      [] valueType = QWORD ->
            IF GetIntegerValue(r, s).ok THEN GoUint64(GetIntegerValue(r, s).val) ELSE GoNil
      [] valueType = BINARY ->
            IF GetBinaryValue(r, s).ok THEN GoBytes(GetBinaryValue(r, s).val) ELSE GoNil
      [] OTHER -> GoNil

\* the dynamic type writeValue's type assertion demands for a REG_* type
kindFor(valueType) ==
    CASE valueType \in {SZ, EXPAND_SZ} -> "string"
      [] valueType = DWORD -> "uint32"
      [] valueType = QWORD -> "uint64"
      [] valueType = BINARY -> "bytes"
      [] OTHER -> "unsupported"

\* writeValue storing the payload although the type assertion failed
writeValue_SetsAnyway(r, s, value, valueType, d) ==
    IF kindFor(valueType) = "unsupported"
    THEN [err |-> "unsupported", reg |-> r]
    ELSE LET w == SetValue(r, s, valueType, value.v, d)
         IN  [err |-> IF value.kind # kindFor(valueType) THEN "invalid type"
                      ELSE IF w.ok THEN "" ELSE "set failed",
              reg |-> w.reg]

\* err is "", "invalid type", "unsupported" or "set failed"
writeValue(r, s, value, valueType, d) ==
    IF kindFor(valueType) = "unsupported"
    THEN [err |-> "unsupported", reg |-> r]
    ELSE IF value.kind # kindFor(valueType)
    THEN [err |-> "invalid type", reg |-> r]
    ELSE LET w == SetValue(r, s, valueType, value.v, d)
         IN  [err |-> IF w.ok THEN "" ELSE "set failed", reg |-> w.reg]

----------------------------------------------------------------------------
(* registry.Manager: create and CreateAll *)

\* create with the snapshot's value cleared before the key is read
create_NilSnapshot(r, entry, d) ==
    LET k == KeyOf(entry)
        s == SlotOf(entry)
        backup ==
            IF OpenKey(r, k) /\ entry.Name # ""
            THEN [Entry |-> [entry EXCEPT !.Value = readValue(r, s, entry.Type)],
                  Existed |-> TRUE]
            ELSE [Entry |-> [entry EXCEPT !.Value = GoNil], Existed |-> OpenKey(r, k)]
        ck == CreateKey(r, k, d)
        w == writeValue(ck.reg, s, entry.Value, entry.Type, d)
    IN  IF ~ck.ok
        THEN [backup |-> backup, err |-> "failed to create key", reg |-> r]
        ELSE IF entry.Name # "" /\ w.err # ""
        THEN [backup |-> backup, err |-> "failed to write value", reg |-> w.reg]
        ELSE [backup |-> backup, err |-> "",
              reg |-> IF entry.Name # "" THEN w.reg ELSE ck.reg]

\* create: snapshot the entry, then create the key and write the value.
\* err is "" on success
create(r, entry, d) ==
    LET k == KeyOf(entry)
        s == SlotOf(entry)
        backup ==
            IF OpenKey(r, k)
            THEN [Entry |-> IF entry.Name # ""
                            THEN [entry EXCEPT !.Value = readValue(r, s, entry.Type)]
                            ELSE entry,
                  Existed |-> TRUE]
            ELSE [Entry |-> entry, Existed |-> FALSE]
        ck == CreateKey(r, k, d)
        w == writeValue(ck.reg, s, entry.Value, entry.Type, d)
    IN  IF ~ck.ok
        THEN [backup |-> backup, err |-> "failed to create key", reg |-> r]
        ELSE IF entry.Name # "" /\ w.err # ""
        THEN [backup |-> backup, err |-> "failed to write value", reg |-> w.reg]
        ELSE [backup |-> backup, err |-> "",
              reg |-> IF entry.Name # "" THEN w.reg ELSE ck.reg]

\* the backup file: absent, or the list of SerializableBackup records, or
\* (malformed) bytes that are not the JSON of such a list
NoFile == [exists |-> FALSE, recs |-> <<>>, malformed |-> FALSE]

\* SaveBackups: fsOK is whether the directory and the file can be written
SaveBackups(backups, f, fsOK) ==
    LET serializableBackups ==
            [i \in 1..Len(backups) |->
                [RootKey |-> backups[i].Entry.Root,
                 Path |-> backups[i].Entry.Path,
                 Name |-> backups[i].Entry.Name,
                 Value |-> Marshal(backups[i].Entry.Value),
                 Type |-> backups[i].Entry.Type,
                 Existed |-> backups[i].Existed]]
    IN  IF fsOK
        THEN [err |-> "", file |-> [exists |-> TRUE, recs |-> serializableBackups,
                                     malformed |-> FALSE]]
        ELSE [err |-> "failed to write backup file", file |-> f]

\* LoadBackups returning the empty set for a file that is not there
LoadBackups_AbsentIsEmpty(f) ==
    IF ~f.exists
    THEN [backups |-> <<>>, err |-> ""]
    ELSE IF f.malformed
    THEN [backups |-> <<>>, err |-> "failed to unmarshal backups"]
    ELSE [backups |->
            [i \in 1..Len(f.recs) |->
                [Entry |-> [Root |-> f.recs[i].RootKey,
                            Path |-> f.recs[i].Path,
                            Name |-> f.recs[i].Name,
                            Value |-> Unmarshal(f.recs[i].Value),
                            Type |-> f.recs[i].Type],
                 Existed |-> f.recs[i].Existed]],
          err |-> ""]

\* LoadBackups: err is "" on success
LoadBackups(f) ==
    IF ~f.exists
    THEN [backups |-> <<>>, err |-> "backup file not found"]
    ELSE IF f.malformed
    THEN [backups |-> <<>>, err |-> "failed to unmarshal backups"]
    ELSE [backups |->
            [i \in 1..Len(f.recs) |->
                [Entry |-> [Root |-> f.recs[i].RootKey,
                            Path |-> f.recs[i].Path,
                            Name |-> f.recs[i].Name,
                            Value |-> Unmarshal(f.recs[i].Value),
                            Type |-> f.recs[i].Type],
                 Existed |-> f.recs[i].Existed]],
          err |-> ""]

\* DeleteBackupFile reporting a missing file as a failure
DeleteBackupFile_MissingIsError(f, fsOK) ==
    IF ~f.exists THEN [err |-> "failed to delete backup file", file |-> f]
    ELSE IF fsOK THEN [err |-> "", file |-> NoFile]
    ELSE [err |-> "failed to delete backup file", file |-> f]

\* DeleteBackupFile: a missing file is no error
DeleteBackupFile(f, fsOK) ==
    IF ~f.exists THEN [err |-> "", file |-> f]
    ELSE IF fsOK THEN [err |-> "", file |-> NoFile]
    ELSE [err |-> "failed to delete backup file", file |-> f]

\* the loop of CreateAll with the backup of a failed entry appended too
RECURSIVE createLoop_AppendAlways(_, _, _, _, _, _)
createLoop_AppendAlways(entries, i, r, backups, errors, d) ==
    IF i > Len(entries)
    THEN [reg |-> r, backups |-> backups, errors |-> errors]
    ELSE With(create(r, entries[i], d), LAMBDA c :
             createLoop_AppendAlways(entries, i + 1, c.reg, Append(backups, c.backup),
                 IF c.err # ""
                 THEN Append(errors, [Path |-> entries[i].Path,
                                      Name |-> entries[i].Name,
                                      err |-> c.err])
                 ELSE errors, d))

\* the loop of CreateAll left at the first entry that fails
RECURSIVE createLoop_StopAtError(_, _, _, _, _, _)
createLoop_StopAtError(entries, i, r, backups, errors, d) ==
    IF i > Len(entries)
    THEN [reg |-> r, backups |-> backups, errors |-> errors]
    ELSE With(create(r, entries[i], d), LAMBDA c :
             IF c.err # ""
             THEN [reg |-> c.reg, backups |-> backups,
                   errors |-> Append(errors, [Path |-> entries[i].Path,
                                              Name |-> entries[i].Name,
                                              err |-> c.err])]
             ELSE createLoop_StopAtError(entries, i + 1, c.reg, Append(backups, c.backup),
                                         errors, d))

\* the loop of CreateAll over m.entries from index i on
RECURSIVE createLoop(_, _, _, _, _, _)
createLoop(entries, i, r, backups, errors, d) ==
    IF i > Len(entries)
    THEN [reg |-> r, backups |-> backups, errors |-> errors]
    ELSE With(create(r, entries[i], d), LAMBDA c :
             IF c.err # ""
             THEN createLoop(entries, i + 1, c.reg, backups,
                             Append(errors, [Path |-> entries[i].Path,
                                             Name |-> entries[i].Name,
                                             err |-> c.err]), d)
             ELSE createLoop(entries, i + 1, c.reg, Append(backups, c.backup), errors, d))

\* CreateAll returning early, before SaveBackups, when an entry failed
CreateAll_NoSaveOnErrors(m, r, f, d, fsOK) ==
    With(createLoop(m.entries, 1, r, <<>>, <<>>, d), LAMBDA l :
        LET sv == IF Len(l.errors) > 0
                  THEN [err |-> "", file |-> f]
                  ELSE SaveBackups(l.backups, f, fsOK)
        IN  [reg |-> l.reg,
             file |-> sv.file,
             backups |-> l.backups,
             errors |-> l.errors,
             err |-> IF sv.err # "" THEN "failed to save backups"
                     ELSE IF Len(l.errors) > 0 THEN "errors during registry creation"
                     ELSE ""])

\* CreateAll: returns the backups, the error and the new registry and file
CreateAll(m, r, f, d, fsOK) ==
    With(createLoop(m.entries, 1, r, <<>>, <<>>, d), LAMBDA l :
        LET sv == SaveBackups(l.backups, f, fsOK)
        IN  [reg |-> l.reg,
             file |-> sv.file,
             backups |-> l.backups,
             errors |-> l.errors,
             err |-> IF sv.err # "" THEN "failed to save backups"
                     ELSE IF Len(l.errors) > 0 THEN "errors during registry creation"
                     ELSE ""])

----------------------------------------------------------------------------
(* registry.Manager: Restore and RemoveAll *)

\* removeValue clearing every value of the key instead of the named one
removeValue_WholeKey(r, s, d) ==
    IF ~OpenKeyForWrite(r, SlotKey(s), d)
    THEN [err |-> "", reg |-> r]
    ELSE [err |-> "",
          reg |-> [r EXCEPT !.vals = [t \in Slots |->
                                        IF SlotKey(t) = SlotKey(s) THEN NoValue ELSE @[t]]]]

\* removeValue: a missing key or value is no error
removeValue(r, s, d) ==
    IF ~OpenKeyForWrite(r, SlotKey(s), d)
    THEN [err |-> "", reg |-> r]
    ELSE LET dv == DeleteValue(r, s, d)
         IN  [err |-> IF dv.err \in {"", "ErrNotExist"} THEN "" ELSE "failed to delete",
              reg |-> dv.reg]

\* removeEmptyKey deleting the key without looking at its values
removeEmptyKey_Always(r, k, d) ==
    IF ~OpenKey(r, k)
    THEN [err |-> "", reg |-> r]
    ELSE LET dk == DeleteKey(r, k, d)
         IN  [err |-> IF dk.err \in {"", "ErrNotExist"} THEN "" ELSE "failed to delete key",
              reg |-> dk.reg]

\* removeEmptyKey: delete the key when it holds no value; a missing key, an
\* unreadable key and a key with values are no errors
removeEmptyKey(r, k, d) ==
    IF ~OpenKey(r, k)
    THEN [err |-> "", reg |-> r]
    ELSE IF ReadValueNames(r, k) # {}
    THEN [err |-> "", reg |-> r]
    ELSE LET dk == DeleteKey(r, k, d)
         IN  [err |-> IF dk.err \in {"", "ErrNotExist"} THEN "" ELSE "failed to delete key",
              reg |-> dk.reg]

\* restore deleting the key of a key-only backup that did not exist before
restore_DeletesKeyOnly(r, backup, d) ==
    LET e == backup.Entry
        ck == CreateKey(r, KeyOf(e), d)
    IN  IF ~backup.Existed
        THEN IF e.Name # ""
             THEN removeValue(r, SlotOf(e), d)
             ELSE [err |-> "", reg |-> DeleteKey(r, KeyOf(e), d).reg]
        ELSE IF ~ck.ok
        THEN [err |-> "failed to open key", reg |-> r]
        ELSE IF e.Name # "" /\ e.Value # GoNil
        THEN LET w == writeValue(ck.reg, SlotOf(e), e.Value, e.Type, d)
             IN  [err |-> w.err, reg |-> w.reg]
        ELSE [err |-> "", reg |-> ck.reg]

\* restore that also deletes the key it finds empty after removing the value
restore_PrunesKey(r, backup, d) ==
    LET e == backup.Entry
        ck == CreateKey(r, KeyOf(e), d)
        rv == removeValue(r, SlotOf(e), d)
    IN  IF ~backup.Existed
        THEN IF e.Name # ""
             THEN IF rv.err = "" /\ OpenKey(rv.reg, KeyOf(e)) /\ ReadValueNames(rv.reg, KeyOf(e)) = {}
                  THEN [err |-> "", reg |-> DeleteKey(rv.reg, KeyOf(e), d).reg]
                  ELSE rv
             ELSE [err |-> "", reg |-> r]
        ELSE IF ~ck.ok
        THEN [err |-> "failed to open key", reg |-> r]
        ELSE IF e.Name # "" /\ e.Value # GoNil
        THEN LET w == writeValue(ck.reg, SlotOf(e), e.Value, e.Type, d)
             IN  [err |-> w.err, reg |-> w.reg]
        ELSE [err |-> "", reg |-> ck.reg]

\* restore: err is "" on success
restore(r, backup, d) ==
    LET e == backup.Entry
        ck == CreateKey(r, KeyOf(e), d)
    IN  IF ~backup.Existed
        THEN IF e.Name # "" THEN removeValue(r, SlotOf(e), d) ELSE [err |-> "", reg |-> r]
        ELSE IF ~ck.ok
        THEN [err |-> "failed to open key", reg |-> r]
        ELSE IF e.Name # "" /\ e.Value # GoNil
        THEN LET w == writeValue(ck.reg, SlotOf(e), e.Value, e.Type, d)
             IN  [err |-> w.err, reg |-> w.reg]
        ELSE [err |-> "", reg |-> ck.reg]

\* the loop of Restore left at the first backup that fails
RECURSIVE restoreLoop_FailFast(_, _, _, _, _)
restoreLoop_FailFast(backups, i, r, errors, d) ==
    IF i > Len(backups)
    THEN [reg |-> r, errors |-> errors]
    ELSE With(restore(r, backups[i], d), LAMBDA x :
             IF x.err # ""
             THEN [reg |-> x.reg, errors |-> Append(errors, i)]
             ELSE restoreLoop_FailFast(backups, i + 1, x.reg, errors, d))

\* the loop of Restore; errors collects the indices of the failed backups
RECURSIVE restoreLoop(_, _, _, _, _)
restoreLoop(backups, i, r, errors, d) ==
    IF i > Len(backups)
    THEN [reg |-> r, errors |-> errors]
    ELSE With(restore(r, backups[i], d), LAMBDA x :
             restoreLoop(backups, i + 1, x.reg,
                         IF x.err # "" THEN Append(errors, i) ELSE errors, d))

Restore(r, backups, d) ==
    With(restoreLoop(backups, 1, r, <<>>, d), LAMBDA l :
        [reg |-> l.reg,
         errors |-> l.errors,
         err |-> IF Len(l.errors) > 0 THEN "errors during registry restoration" ELSE ""])

\* the loop without a backup clearing the whole key of each catalog value
RECURSIVE removeValuesLoop_WholeKeys(_, _, _, _, _)
removeValuesLoop_WholeKeys(entries, i, r, errors, d) ==
    IF i > Len(entries)
    THEN [reg |-> r, errors |-> errors]
    ELSE IF entries[i].Name = ""
    THEN removeValuesLoop_WholeKeys(entries, i + 1, r, errors, d)
    ELSE With(removeValue_WholeKey(r, SlotOf(entries[i]), d), LAMBDA x :
             removeValuesLoop_WholeKeys(entries, i + 1, x.reg,
                              IF x.err # "" THEN Append(errors, x.err) ELSE errors, d))

\* RemoveAll without a backup: delete the named values of the catalog
RECURSIVE removeValuesLoop(_, _, _, _, _)
removeValuesLoop(entries, i, r, errors, d) ==
    IF i > Len(entries)
    THEN [reg |-> r, errors |-> errors]
    ELSE IF entries[i].Name = ""
    THEN removeValuesLoop(entries, i + 1, r, errors, d)
    ELSE With(removeValue(r, SlotOf(entries[i]), d), LAMBDA x :
             removeValuesLoop(entries, i + 1, x.reg,
                              IF x.err # "" THEN Append(errors, x.err) ELSE errors, d))

serviceSpecificPaths == {PathLauncher, PathUser}

\* RemoveAll: the pruning loop over m.entries
RECURSIVE pruneLoop(_, _, _, _, _, _)
pruneLoop(entries, i, r, processedPaths, errors, d) ==
    IF i > Len(entries)
    THEN [reg |-> r, errors |-> errors]
    ELSE LET keyPath == KeyOf(entries[i])
         IN  IF keyPath \notin processedPaths /\ entries[i].Path \in serviceSpecificPaths
             THEN With(removeEmptyKey(r, keyPath, d), LAMBDA x :
                      pruneLoop(entries, i + 1, x.reg, processedPaths \cup {keyPath},
                                IF x.err # "" THEN Append(errors, x.err) ELSE errors, d))
             ELSE pruneLoop(entries, i + 1, r, processedPaths, errors, d)

\* RemoveAll returning as soon as Restore reports a failure
RemoveAll_StopOnRestoreError(m, r, f, d, fsOK) ==
    With(LoadBackups(f), LAMBDA ld :
    With(IF ld.err # ""
         THEN [removeValuesLoop(m.entries, 1, r, <<>>, d) EXCEPT !.errors = <<@, <<>> >>]
         ELSE With(Restore(r, ld.backups, d), LAMBDA rs :
                [reg |-> rs.reg,
                 errors |-> << IF rs.err # "" THEN <<"failed to restore backups">> ELSE <<>>,
                               rs.errors >>]),
         LAMBDA first :
    IF Len(first.errors[2]) > 0
    THEN [reg |-> first.reg, file |-> f, loaded |-> ld, restored |-> first.errors[2],
          errors |-> first.errors[1], err |-> "errors during registry cleanup"]
    ELSE
    With(pruneLoop(m.entries, 1, first.reg, {}, first.errors[1], d), LAMBDA pr :
        LET df == DeleteBackupFile(f, fsOK)
            errors == IF df.err # "" THEN Append(pr.errors, df.err) ELSE pr.errors
        IN  [reg |-> pr.reg,
             file |-> df.file,
             loaded |-> ld,
             restored |-> first.errors[2],
             errors |-> errors,
             err |-> IF Len(errors) > 0 THEN "errors during registry cleanup" ELSE ""])))

\* RemoveAll: restore (or best-effort delete), prune, delete the backup file.
\* restored is the per-backup error list of Restore when it ran
RemoveAll(m, r, f, d, fsOK) ==
    With(LoadBackups(f), LAMBDA ld :
    With(IF ld.err # ""
         THEN [removeValuesLoop(m.entries, 1, r, <<>>, d) EXCEPT !.errors = <<@, <<>> >>]
         ELSE With(Restore(r, ld.backups, d), LAMBDA rs :
                [reg |-> rs.reg,
                 errors |-> << IF rs.err # "" THEN <<"failed to restore backups">> ELSE <<>>,
                               rs.errors >>]),
         LAMBDA first :
    With(pruneLoop(m.entries, 1, first.reg, {}, first.errors[1], d), LAMBDA pr :
        LET df == DeleteBackupFile(f, fsOK)
            errors == IF df.err # "" THEN Append(pr.errors, df.err) ELSE pr.errors
        IN  [reg |-> pr.reg,
             file |-> df.file,
             loaded |-> ld,
             restored |-> first.errors[2],
             errors |-> errors,
             err |-> IF Len(errors) > 0 THEN "errors during registry cleanup" ELSE ""])))

----------------------------------------------------------------------------
(* Handles: what each operation of the manager opens and closes, in order.
   "OpenKey" and "CreateKey" are handles obtained, "Close" is k.Close(), the
   deferred ones placed where the function returns. *)

\* create: the read handle is closed after the snapshot, the write handle by
\* the deferred call on both returns
createHandles(r, entry, d) ==
    (IF OpenKey(r, KeyOf(entry)) THEN <<"OpenKey", "Close">> ELSE <<>>)
    \o (IF CreateKey(r, KeyOf(entry), d).ok THEN <<"CreateKey", "Close">> ELSE <<>>)

\* removeValue: deferred close once the key is open
removeValueHandles(r, s, d) ==
    IF OpenKeyForWrite(r, SlotKey(s), d) THEN <<"OpenKey", "Close">> ELSE <<>>

\* removeEmptyKey: closed right after ReadValueNames, before both returns
removeEmptyKeyHandles(r, k, d) ==
    IF OpenKey(r, k) THEN <<"OpenKey", "Close">> ELSE <<>>

\* restore: nothing is opened for a key-only backup of an absent key
restoreHandles(r, backup, d) ==
    IF ~backup.Existed
    THEN IF backup.Entry.Name # ""
         THEN removeValueHandles(r, SlotOf(backup.Entry), d)
         ELSE <<>>
    ELSE IF CreateKey(r, KeyOf(backup.Entry), d).ok
    THEN <<"CreateKey", "Close">>
    ELSE <<>>

RECURSIVE createLoopHandles(_, _, _, _, _)
createLoopHandles(entries, i, r, trace, d) ==
    IF i > Len(entries)
    THEN trace
    ELSE With(create(r, entries[i], d), LAMBDA c :
             createLoopHandles(entries, i + 1, c.reg,
                               trace \o createHandles(r, entries[i], d), d))

RECURSIVE restoreLoopHandles(_, _, _, _, _)
restoreLoopHandles(backups, i, r, trace, d) ==
    IF i > Len(backups)
    THEN trace
    ELSE With(restore(r, backups[i], d), LAMBDA x :
             restoreLoopHandles(backups, i + 1, x.reg,
                                trace \o restoreHandles(r, backups[i], d), d))

RECURSIVE removeValuesLoopHandles(_, _, _, _, _)
removeValuesLoopHandles(entries, i, r, trace, d) ==
    IF i > Len(entries)
    THEN trace
    ELSE IF entries[i].Name = ""
    THEN removeValuesLoopHandles(entries, i + 1, r, trace, d)
    ELSE With(removeValue(r, SlotOf(entries[i]), d), LAMBDA x :
             removeValuesLoopHandles(entries, i + 1, x.reg,
                                     trace \o removeValueHandles(r, SlotOf(entries[i]), d), d))

RECURSIVE pruneLoopHandles(_, _, _, _, _, _)
pruneLoopHandles(entries, i, r, processedPaths, trace, d) ==
    IF i > Len(entries)
    THEN trace
    ELSE LET keyPath == KeyOf(entries[i])
         IN  IF keyPath \notin processedPaths /\ entries[i].Path \in serviceSpecificPaths
             THEN With(removeEmptyKey(r, keyPath, d), LAMBDA x :
                      pruneLoopHandles(entries, i + 1, x.reg, processedPaths \cup {keyPath},
                                       trace \o removeEmptyKeyHandles(r, keyPath, d), d))
             ELSE pruneLoopHandles(entries, i + 1, r, processedPaths, trace, d)

CreateAllHandles(m, r, d) == createLoopHandles(m.entries, 1, r, <<>>, d)

RestoreHandles(r, backups, d) == restoreLoopHandles(backups, 1, r, <<>>, d)

RemoveAllHandles(m, r, f, d) ==
    With(LoadBackups(f), LAMBDA ld :
        IF ld.err # ""
        THEN With(removeValuesLoop(m.entries, 1, r, <<>>, d), LAMBDA first :
                pruneLoopHandles(m.entries, 1, first.reg, {},
                                 removeValuesLoopHandles(m.entries, 1, r, <<>>, d), d))
        ELSE With(Restore(r, ld.backups, d), LAMBDA first :
                pruneLoopHandles(m.entries, 1, first.reg, {},
                                 RestoreHandles(r, ld.backups, d), d)))

\* the handles a trace leaves open
Open(trace) ==
    Cardinality({i \in 1..Len(trace) : trace[i] \in {"OpenKey", "CreateKey"}})
        - Cardinality({i \in 1..Len(trace) : trace[i] = "Close"})

\* open handles by kind: registry keys, service-manager connections, services
NoHandles == [key |-> 0, scm |-> 0, service |-> 0]

Acquire(h, kind) == [h EXCEPT ![kind] = @ + 1]
Release(h, kind) == [h EXCEPT ![kind] = @ - 1]
AddKeys(h, n) == [h EXCEPT !.key = @ + n]

\* the deferred calls of a function, last deferred first
RECURSIVE RunDeferred(_, _)
RunDeferred(h, dq) ==
    IF dq = <<>> THEN h ELSE RunDeferred(Release(h, Head(dq)), Tail(dq))

----------------------------------------------------------------------------
(* State *)

VARIABLES
    reg,      \* the registry: [keys, vals]
    file,     \* the backup file under the data directory
    svc,      \* state of the service in the service manager
    denied,   \* access faults of the environment
    pc,       \* position of the running command, "idle" between commands
    result,   \* error returned by the last command ("" is success)
    warns,    \* warnings and errors the running or last command logged
    ca,       \* what the last CreateAll returned: [backups, errors, err]
    ra,       \* what the last RemoveAll or Restore did:
              \* [found, loaded, restored, errors, err]
    pre,      \* the registry as it was when the last CreateAll began
    trail,    \* manager operations run since then, the CreateAll included
    budget,   \* install commands left to this run
    clock,    \* time.Now() in ms since the running command began to wait
    deadline, \* the local variable timeout of Remove and Stop
    status,   \* status.State, the last state the service manager returned
    polls,    \* s.Query() calls of the running wait loop
    handles,  \* the handles that are open, by kind
    deferred, \* the kinds whose release the running command has deferred
    inv,      \* two invocations running at once: for each its command, its
              \* position, and its locals backups and loaded
    mode,     \* how the service process runs: "service" (Execute), "debug"
              \* (RunDebug) or "none"
    xpc,      \* position of Execute or RunDebug
    gpc,      \* position of the goroutine that runs server.Start
    errChan,  \* the channel errChan
    changes,  \* the statuses sent on the channel changes, in order
    reqs,     \* control requests received from the channel r
    shut,     \* calls of server.Shutdown
    xres,     \* what Execute or RunDebug returned
    xlog      \* what the service process logged

vars == <<reg, file, svc, denied, pc, result, warns, ca, ra, pre, trail, budget,
          clock, deadline, status, polls, handles, deferred, inv,
          mode, xpc, gpc, errChan, changes, reqs, shut, xres, xlog>>

\* the variables of the commands
commandVars ==
    <<reg, file, svc, denied, pc, result, warns, ca, ra, pre, trail, budget,
      clock, deadline, status, polls, handles, deferred>>

\* the variables of the service process
execVars == <<mode, xpc, gpc, errChan, changes, reqs, shut, xres, xlog>>

\* a step that opens and closes nothing
Hold == UNCHANGED <<handles, deferred>>

\* the function returns holding h: its deferred calls run
ReturnWith(h) == handles' = RunDeferred(h, deferred) /\ deferred' = <<>>

\* a handle is obtained and no release is deferred
AcquireDeferred_NoDefer(kind) ==
    handles' = Acquire(handles, kind) /\ UNCHANGED deferred

\* a handle is obtained and its release deferred
AcquireDeferred(kind) ==
    /\ handles' = Acquire(handles, kind)
    /\ deferred' = <<kind>> \o deferred

\* the variables of the wait loops
pollVars == <<clock, deadline, status, polls>>

\* no invocation runs beside the command
\* the service process is not running
NoService ==
    /\ mode = "none"
    /\ xpc = "none"
    /\ gpc = "none"
    /\ errChan = <<>>
    /\ changes = <<>>
    /\ reqs = 0
    /\ shut = 0
    /\ xres = "none"
    /\ xlog = {}

\* the variables the commands run one at a time never touch
otherVars == <<inv, execVars>>

----------------------------------------------------------------------------
(* Initial states: registries with a few pre-existing keys and values *)

RECURSIVE SubsetsUpTo(_, _)
SubsetsUpTo(S, n) ==
    IF n = 0 THEN {{}}
    ELSE LET P == SubsetsUpTo(S, n - 1)
         IN  P \cup {p \cup {x} : p \in P, x \in S}

\* data a catalog value may hold before installation; it differs from the
\* value the catalog writes
OldData(type) == IF type = DWORD THEN "0" ELSE "old"

\* the keys and the catalog values that may exist before the first command
PreKeys == {KLauncher, KAllowList, KNetOff, KUser}
PreNames == {"InstallPath", "ServerPort", "AutoAdminLogon"}

\* an item is a key (name "") or a named value under a key
KeyItems == {[key |-> k, name |-> "", val |-> NoValue] : k \in PreKeys}
ValueItems ==
    {[key |-> KeyOf(Catalog[i]), name |-> Catalog[i].Name,
      val |-> [type |-> Catalog[i].Type, data |-> OldData(Catalog[i].Type)]] :
        i \in {j \in 1..NEntries : Catalog[j].Name \in PreNames}}
    \cup {[key |-> KWinlogon, name |-> "AutoAdminLogon", val |-> [type |-> DWORD, data |-> "1"]]}
    \cup {[key |-> SlotKey(s), name |-> OtherName, val |-> [type |-> SZ, data |-> "x"]] :
            s \in {t \in OtherSlots : SlotKey(t) = KLauncher}}
PreItems == KeyItems \cup ValueItems

ItemSlot(it) == <<it.key[1], it.key[2], it.name>>

RegOf(items) ==
    [keys |-> {it.key : it \in items} \cup UNION {Ancestors(it.key) : it \in items},
     vals |-> [s \in Slots |->
                IF \E it \in items : it.name # "" /\ ItemSlot(it) = s
                THEN (CHOOSE it \in items : it.name # "" /\ ItemSlot(it) = s).val
                ELSE NoValue]]

InitRegs ==
    {RegOf(items) : items \in
        {S \in SubsetsUpTo(PreItems, MaxPre) :
            \A a, b \in S : (a.name # "" /\ ItemSlot(a) = ItemSlot(b)) => a = b}}

\* the environments of the model: no fault, a single one, or a registry in
\* which no catalog key can be opened for writing
FaultSets ==
    {NoFaults, [NoFaults EXCEPT !.nosave = TRUE], [NoFaults EXCEPT !.open = CatalogKeys]}
    \cup {[NoFaults EXCEPT !.open = {k}] : k \in {KLauncher, KNetOff}}
    \cup {[NoFaults EXCEPT !.set = {k}] : k \in {KLauncher, KAllowList}}

\* trail after one more manager operation; only the first three are kept apart
Track(t, op) ==
    IF Len(t) \in {1, 2} /\ t[1] = "CreateAll" THEN Append(t, op) ELSE <<"more">>

NoCreateAll == [backups |-> <<>>, errors |-> <<>>, err |-> ""]
NoRemoveAll ==
    [found |-> FALSE, loaded |-> <<>>, restored |-> <<>>, errors |-> <<>>, err |-> ""]

Init ==
    /\ reg \in InitRegs
    /\ file = NoFile
    /\ svc \in {"NotInstalled", "Stopped"}
    /\ denied \in FaultSets
    /\ pc = "idle"
    /\ result = "none"
    /\ warns = {}
    /\ ca = NoCreateAll
    /\ ra = NoRemoveAll
    /\ pre = reg
    /\ trail = <<>>
    /\ budget = MaxInstalls
    /\ clock = 0
    /\ deadline = 0
    /\ status = "none"
    /\ polls = 0
    /\ handles = NoHandles
    /\ deferred = <<>>
    /\ inv = <<>>
    /\ NoService

----------------------------------------------------------------------------
(* service.Install *)

\* the compensating regMgr.RemoveAll() of Install, then return err
Rollback(err, fsOK) ==
    \E x \in {RemoveAll(regMgr, reg, file, denied, fsOK)} :
        /\ (~file.exists => fsOK)
        /\ reg' = x.reg
        /\ file' = x.file
        /\ ra' = [found |-> x.loaded.err = "", loaded |-> x.loaded.backups,
                  restored |-> x.restored, errors |-> x.errors, err |-> x.err]
        /\ trail' = Track(trail, "RemoveAll")
        /\ result' = err
        /\ pc' = "idle"

\* Install creating the registry entries before it creates the data directory
InstallBegin_AppliesFirst ==
    /\ pc = "idle"
    /\ budget > 0
    /\ budget' = budget - 1
    /\ warns' = {}
    /\ \E ok \in BOOLEAN :
        IF ok
        THEN /\ pc' = "install_apply" /\ result' = "none" /\ Hold
             /\ UNCHANGED <<reg, file>>
        ELSE /\ pc' = "idle" /\ result' = "failed before registry" /\ ReturnWith(handles)
             /\ \E x \in {CreateAll(regMgr, reg, file, denied, ~denied.nosave)} :
                    reg' = x.reg /\ file' = x.file
    /\ UNCHANGED <<svc, denied, ca, ra, pre, trail>>
    /\ UNCHANGED pollVars
    /\ UNCHANGED otherVars

\* os.Executable and os.MkdirAll of the data directory
InstallBegin ==
    /\ pc = "idle"
    /\ budget > 0
    /\ budget' = budget - 1
    /\ warns' = {}
    /\ \E ok \in BOOLEAN :
        IF ok
        THEN pc' = "install_apply" /\ result' = "none" /\ Hold
        ELSE pc' = "idle" /\ result' = "failed before registry" /\ ReturnWith(handles)
    /\ UNCHANGED <<reg, file, svc, denied, ca, ra, pre, trail>>
    /\ UNCHANGED pollVars
    /\ UNCHANGED otherVars

\* Install returning the error of regMgr.CreateAll()
InstallCreateAll_AbortOnError ==
    /\ pc = "install_apply"
    /\ \E x \in {CreateAll(regMgr, reg, file, denied, ~denied.nosave)} :
           /\ reg' = x.reg
           /\ file' = x.file
           /\ ca' = [backups |-> x.backups, errors |-> x.errors, err |-> x.err]
           /\ warns' = warns
           /\ IF x.err # ""
              THEN pc' = "idle" /\ result' = x.err
              ELSE pc' = "install_connect" /\ UNCHANGED result
    /\ pre' = reg
    /\ trail' = <<"CreateAll">>
    /\ ra' = NoRemoveAll
    /\ UNCHANGED <<svc, denied, budget>>
    /\ UNCHANGED pollVars
    /\ handles' = AddKeys(handles, Open(CreateAllHandles(regMgr, reg, denied)))
    /\ UNCHANGED deferred
    /\ UNCHANGED otherVars

\* regMgr.CreateAll(); a failure is only a warning
InstallCreateAll ==
    /\ pc = "install_apply"
    /\ \E x \in {CreateAll(regMgr, reg, file, denied, ~denied.nosave)} :
           /\ reg' = x.reg
           /\ file' = x.file
           /\ ca' = [backups |-> x.backups, errors |-> x.errors, err |-> x.err]
           /\ warns' = IF x.err # "" THEN warns \cup {"Some registry entries failed to create"}
                       ELSE warns
    /\ pre' = reg
    /\ trail' = <<"CreateAll">>
    /\ ra' = NoRemoveAll
    /\ pc' = "install_connect"
    /\ UNCHANGED <<svc, denied, result, budget>>
    /\ UNCHANGED pollVars
    /\ handles' = AddKeys(handles, Open(CreateAllHandles(regMgr, reg, denied)))
    /\ UNCHANGED deferred
    /\ UNCHANGED otherVars

\* mgr.Connect()
InstallConnect ==
    /\ pc = "install_connect"
    /\ \E ok \in BOOLEAN :
        IF ok
        THEN /\ pc' = "install_open"
             /\ AcquireDeferred("scm")
             /\ UNCHANGED <<reg, file, ra, trail, result, warns>>
        ELSE /\ \E fsOK \in BOOLEAN : Rollback("failed to connect to service manager", fsOK)
             /\ warns' = warns \cup {"Failed to connect to service manager, rolling back"}
             /\ ReturnWith(AddKeys(handles, Open(RemoveAllHandles(regMgr, reg, file, denied))))
    /\ UNCHANGED <<svc, denied, ca, pre, budget>>
    /\ UNCHANGED pollVars
    /\ UNCHANGED otherVars

\* Install returning AlreadyExists without the compensating RemoveAll
InstallOpenService_NoRollback ==
    /\ pc = "install_open"
    /\ IF svc # "NotInstalled"
       THEN /\ result' = "service already exists"
            /\ pc' = "idle"
            /\ warns' = warns \cup {"Service already exists, rolling back"}
            /\ UNCHANGED <<reg, file, ra, trail>>
            /\ ReturnWith(Release(Acquire(handles, "service"), "service"))
       ELSE /\ pc' = "install_create"
            /\ Hold
            /\ UNCHANGED <<reg, file, ra, trail, result, warns>>
    /\ UNCHANGED <<svc, denied, ca, pre, budget>>
    /\ UNCHANGED pollVars
    /\ UNCHANGED otherVars

\* m.OpenService(name): success means the service already exists
InstallOpenService ==
    /\ pc = "install_open"
    /\ IF svc # "NotInstalled"
       THEN /\ \E fsOK \in BOOLEAN : Rollback("service already exists", fsOK)
            /\ warns' = warns \cup {"Service already exists, rolling back"}
            /\ ReturnWith(AddKeys(Release(Acquire(handles, "service"), "service"), Open(RemoveAllHandles(regMgr, reg, file, denied))))
       ELSE /\ pc' = "install_create"
            /\ Hold
            /\ UNCHANGED <<reg, file, ra, trail, result, warns>>
    /\ UNCHANGED <<svc, denied, ca, pre, budget>>
    /\ UNCHANGED pollVars
    /\ UNCHANGED otherVars

\* m.CreateService(...)
InstallCreateService ==
    /\ pc = "install_create"
    /\ \E ok \in BOOLEAN :
        IF ok
        THEN /\ svc' = "Stopped"
             /\ pc' = "install_start"
             /\ AcquireDeferred("service")
             /\ UNCHANGED <<reg, file, ra, trail, result, warns>>
        ELSE /\ \E fsOK \in BOOLEAN : Rollback("failed to create service", fsOK)
             /\ warns' = warns \cup {"Failed to create service, rolling back"}
             /\ UNCHANGED svc
             /\ ReturnWith(AddKeys(handles, Open(RemoveAllHandles(regMgr, reg, file, denied))))
    /\ UNCHANGED <<denied, ca, pre, budget>>
    /\ UNCHANGED pollVars
    /\ UNCHANGED otherVars

\* Install treating a failed s.Start() like a failed CreateService
InstallStart_RollsBack ==
    /\ pc = "install_start"
    /\ \E ok \in BOOLEAN :
        IF ok
        THEN /\ svc' = "Running"
             /\ result' = ""
             /\ pc' = "idle"
             /\ UNCHANGED <<reg, file, ra, trail, warns>>
             /\ ReturnWith(handles)
        ELSE /\ \E fsOK \in BOOLEAN : Rollback("could not start service", fsOK)
             /\ warns' = warns \cup {"Service created but failed to start"}
             /\ UNCHANGED svc
             /\ ReturnWith(AddKeys(handles, Open(RemoveAllHandles(regMgr, reg, file, denied))))
    /\ UNCHANGED <<denied, ca, pre, budget>>
    /\ UNCHANGED pollVars
    /\ UNCHANGED otherVars

\* s.Start(): a failure is only a warning, Install returns nil
InstallStart ==
    /\ pc = "install_start"
    /\ \E ok \in BOOLEAN :
        IF ok
        THEN svc' = "Running" /\ UNCHANGED warns
        ELSE svc' = svc /\ warns' = warns \cup {"Service created but failed to start"}
    /\ result' = ""
    /\ pc' = "idle"
    /\ UNCHANGED <<reg, file, denied, ca, ra, pre, trail, budget>>
    /\ UNCHANGED pollVars
    /\ ReturnWith(handles)
    /\ UNCHANGED otherVars

----------------------------------------------------------------------------
(* service.Remove *)

\* mgr.Connect()
RemoveConnect ==
    /\ pc = "idle"
    /\ warns' = {}
    /\ \E ok \in BOOLEAN :
        IF ok
        THEN pc' = "remove_open" /\ result' = "none" /\ AcquireDeferred("scm")
        ELSE pc' = "idle" /\ result' = "failed to connect to service manager"
                /\ ReturnWith(handles)
    /\ UNCHANGED <<reg, file, svc, denied, ca, ra, pre, trail, budget>>
    /\ UNCHANGED pollVars
    /\ UNCHANGED otherVars

\* m.OpenService(name)
RemoveOpenService ==
    /\ pc = "remove_open"
    /\ IF svc = "NotInstalled"
       THEN pc' = "idle" /\ result' = "service is not installed" /\ ReturnWith(handles)
       ELSE pc' = "remove_stop" /\ UNCHANGED result /\ AcquireDeferred("service")
    /\ UNCHANGED <<reg, file, svc, denied, warns, ca, ra, pre, trail, budget>>
    /\ UNCHANGED pollVars
    /\ UNCHANGED otherVars

\* s.Control(svc.Stop): accepted only by a running service; a failure is a warning
RemoveStop ==
    /\ pc = "remove_stop"
    /\ \E ok \in BOOLEAN :
        IF ok /\ svc = "Running"
        THEN svc' = "StopPending" /\ UNCHANGED warns
        ELSE svc' = svc /\ warns' = warns \cup {"Failed to stop service"}
    /\ pc' = "remove_wait"
    /\ UNCHANGED <<reg, file, denied, result, ca, ra, pre, trail, budget>>
    /\ UNCHANGED pollVars
    /\ Hold
    /\ UNCHANGED otherVars

\* the wait for svc.Stopped: left on Stopped, on the deadline or on a failed query
RemoveWait ==
    /\ pc = "remove_wait"
    /\ \E out \in {"stopped", "timeout", "queryfail"} :
        CASE out = "stopped" ->
                /\ svc \in {"Stopped", "StopPending"}
                /\ svc' = "Stopped"
                /\ UNCHANGED warns
          [] out = "timeout" ->
                /\ svc # "Stopped"
                /\ svc' = svc
                /\ warns' = warns \cup {"Service did not stop within timeout"}
          [] out = "queryfail" ->
                /\ svc' = svc
                /\ warns' = warns \cup {"Failed to query service status"}
    /\ pc' = "remove_delete"
    /\ UNCHANGED <<reg, file, denied, result, ca, ra, pre, trail, budget>>
    /\ UNCHANGED pollVars
    /\ Hold
    /\ UNCHANGED otherVars

\* Remove going on to the registry although s.Delete() failed
RemoveDelete_CleansAnyway ==
    /\ pc = "remove_delete"
    /\ \E ok \in BOOLEAN :
        IF ok
        THEN svc' = "NotInstalled" /\ pc' = "remove_registry" /\ UNCHANGED result
        ELSE svc' = svc /\ pc' = "remove_registry" /\ UNCHANGED result
    /\ UNCHANGED <<reg, file, denied, warns, ca, ra, pre, trail, budget>>
    /\ UNCHANGED pollVars
    /\ Hold
    /\ UNCHANGED otherVars

\* s.Delete(): a failure is returned
RemoveDelete ==
    /\ pc = "remove_delete"
    /\ \E ok \in BOOLEAN :
        IF ok
        THEN svc' = "NotInstalled" /\ pc' = "remove_registry" /\ UNCHANGED result /\ Hold
        ELSE svc' = svc /\ pc' = "idle" /\ result' = "failed to delete service"
                /\ ReturnWith(handles)
    /\ UNCHANGED <<reg, file, denied, warns, ca, ra, pre, trail, budget>>
    /\ UNCHANGED pollVars
    /\ UNCHANGED otherVars

\* Remove returning the error of regMgr.RemoveAll()
RemoveRegistry_ReturnsError ==
    /\ pc = "remove_registry"
    /\ \E fsOK \in BOOLEAN :
        \E x \in {RemoveAll(regMgr, reg, file, denied, fsOK)} :
            /\ (~file.exists => fsOK)
            /\ reg' = x.reg
            /\ file' = x.file
            /\ ra' = [found |-> x.loaded.err = "", loaded |-> x.loaded.backups,
                  restored |-> x.restored, errors |-> x.errors, err |-> x.err]
            /\ warns' = warns
            /\ result' = x.err
    /\ trail' = Track(trail, "RemoveAll")
    /\ pc' = "idle"
    /\ UNCHANGED <<svc, denied, ca, pre, budget>>
    /\ UNCHANGED pollVars
    /\ ReturnWith(AddKeys(handles, Open(RemoveAllHandles(regMgr, reg, file, denied))))
    /\ UNCHANGED otherVars

\* regMgr.RemoveAll(): a failure is only a warning, Remove returns nil
RemoveRegistry ==
    /\ pc = "remove_registry"
    /\ \E fsOK \in BOOLEAN :
        \E x \in {RemoveAll(regMgr, reg, file, denied, fsOK)} :
            /\ (~file.exists => fsOK)
            /\ reg' = x.reg
            /\ file' = x.file
            /\ ra' = [found |-> x.loaded.err = "", loaded |-> x.loaded.backups,
                  restored |-> x.restored, errors |-> x.errors, err |-> x.err]
            /\ warns' = IF x.err # "" THEN warns \cup {"Some registry entries failed to restore"}
                        ELSE warns
    /\ trail' = Track(trail, "RemoveAll")
    /\ result' = ""
    /\ pc' = "idle"
    /\ UNCHANGED <<svc, denied, ca, pre, budget>>
    /\ UNCHANGED pollVars
    /\ ReturnWith(AddKeys(handles, Open(RemoveAllHandles(regMgr, reg, file, denied))))
    /\ UNCHANGED otherVars

----------------------------------------------------------------------------
(* service.RestoreBackupsManually *)

RestoreBackupsManually ==
    /\ pc = "idle"
    /\ warns' = {}
    /\ \E ld \in {LoadBackups(file)} : \E x \in {Restore(reg, ld.backups, denied)} :
           IF ld.err # ""
           THEN /\ result' = "failed to load backups: " \o ld.err
                /\ UNCHANGED <<reg, ra, trail>>
                /\ ReturnWith(handles)
           ELSE /\ reg' = x.reg
                /\ ra' = [found |-> TRUE, loaded |-> ld.backups, restored |-> x.errors,
                          errors |-> <<>>, err |-> x.err]
                /\ trail' = Track(trail, "Restore")
                /\ result' = IF x.err # "" THEN "failed to restore" ELSE ""
                /\ ReturnWith(AddKeys(handles, Open(RestoreHandles(reg, ld.backups, denied))))
    /\ UNCHANGED <<file, svc, denied, pc, ca, pre, budget>>
    /\ UNCHANGED pollVars
    /\ UNCHANGED otherVars

----------------------------------------------------------------------------
(* Environment *)

\* the backup file is written in place by os.WriteFile: an interrupted write
\* or any other writer leaves bytes that json.Unmarshal rejects
BackupFileDamaged ==
    /\ pc = "idle"
    /\ file.exists
    /\ ~file.malformed
    /\ file' = [exists |-> TRUE, recs |-> <<>>, malformed |-> TRUE]
    /\ UNCHANGED <<reg, svc, denied, pc, result, warns, ca, ra, pre, trail, budget>>
    /\ UNCHANGED pollVars
    /\ Hold
    /\ UNCHANGED otherVars

----------------------------------------------------------------------------
(* Specification *)

Next ==
    \/ InstallBegin
    \/ InstallCreateAll
    \/ InstallConnect
    \/ InstallOpenService
    \/ InstallCreateService
    \/ InstallStart
    \/ RemoveConnect
    \/ RemoveOpenService
    \/ RemoveStop
    \/ RemoveWait
    \/ RemoveDelete
    \/ RemoveRegistry
    \/ RestoreBackupsManually
    \/ BackupFileDamaged

Spec == Init /\ [][Next]_vars

\* the states a successful Install leaves in an environment without faults:
\* the catalog applied, its backups saved, the service created
InitReinstall ==
    \E r0 \in InitRegs :
        \E x \in {CreateAll(regMgr, r0, NoFile, NoFaults, TRUE)} :
            /\ reg = x.reg
            /\ file = x.file
            /\ ca = [backups |-> x.backups, errors |-> x.errors, err |-> x.err]
            /\ pre = r0
            /\ svc \in {"Running", "Stopped"}
            /\ denied = NoFaults
            /\ pc = "idle"
            /\ result = ""
            /\ warns = {}
            /\ ra = NoRemoveAll
            /\ trail = <<"CreateAll">>
            /\ budget = MaxInstalls + 1
            /\ clock = 0
            /\ deadline = 0
            /\ status = "none"
            /\ polls = 0
            /\ handles = NoHandles
            /\ deferred = <<>>
            /\ inv = <<>>
            /\ NoService

\* Install and Remove commands on an installation
NextReinstall ==
    \/ InstallBegin
    \/ InstallCreateAll
    \/ InstallConnect
    \/ InstallOpenService
    \/ InstallCreateService
    \/ InstallStart
    \/ RemoveConnect
    \/ RemoveOpenService
    \/ RemoveStop
    \/ RemoveWait
    \/ RemoveDelete
    \/ RemoveRegistry

SpecReinstall == InitReinstall /\ [][NextReinstall]_vars

----------------------------------------------------------------------------
(* The registry manager alone: its exported operations called directly, in
   any order, on the bounded registries and environments of Init *)

InitManager == Init /\ svc = "NotInstalled"

\* Manager.CreateAll
ManagerCreateAll ==
    /\ pc = "idle"
    /\ budget > 0
    /\ budget' = budget - 1
    /\ \E x \in {CreateAll(regMgr, reg, file, denied, ~denied.nosave)} :
           /\ reg' = x.reg
           /\ file' = x.file
           /\ ca' = [backups |-> x.backups, errors |-> x.errors, err |-> x.err]
    /\ pre' = reg
    /\ trail' = <<"CreateAll">>
    /\ ra' = NoRemoveAll
    /\ UNCHANGED <<svc, denied, pc, result, warns>>
    /\ UNCHANGED pollVars
    /\ handles' = AddKeys(handles, Open(CreateAllHandles(regMgr, reg, denied)))
    /\ UNCHANGED deferred
    /\ UNCHANGED otherVars

\* Manager.RemoveAll
ManagerRemoveAll ==
    /\ pc = "idle"
    /\ \E fsOK \in BOOLEAN :
        \E x \in {RemoveAll(regMgr, reg, file, denied, fsOK)} :
            /\ (~file.exists => fsOK)
            /\ reg' = x.reg
            /\ file' = x.file
            /\ ra' = [found |-> x.loaded.err = "", loaded |-> x.loaded.backups,
                      restored |-> x.restored, errors |-> x.errors, err |-> x.err]
    /\ trail' = Track(trail, "RemoveAll")
    /\ UNCHANGED <<svc, denied, pc, result, warns, ca, pre, budget>>
    /\ UNCHANGED pollVars
    /\ handles' = AddKeys(handles, Open(RemoveAllHandles(regMgr, reg, file, denied)))
    /\ UNCHANGED deferred
    /\ UNCHANGED otherVars

NextManager ==
    \/ ManagerCreateAll
    \/ ManagerRemoveAll
    \/ RestoreBackupsManually
    \/ BackupFileDamaged

SpecManager == InitManager /\ [][NextManager]_vars

----------------------------------------------------------------------------
(* The wait loops of Stop and Remove, poll by poll. Time is in milliseconds
   since the command began to wait. *)

\* 30 * time.Second and 500 * time.Millisecond
WaitTimeout == 30000
PollInterval == 500

\* the states an installed service reports
ServiceStates == {"Stopped", "StopPending", "Running"}

\* time.Sleep(500 * time.Millisecond) followed by s.Query(): the clock when
\* the query has returned; lag is what the two take beyond the interval
Sleep_Short(t, lag) == t + (PollInterval \div 2) + lag
Sleep(t, lag) == t + PollInterval + lag

InitPoll ==
    /\ reg = RegOf({})
    /\ file = NoFile
    /\ svc \in ServiceStates \cup {"NotInstalled"}
    /\ denied = NoFaults
    /\ pc = "idle"
    /\ result = "none"
    /\ warns = {}
    /\ ca = NoCreateAll
    /\ ra = NoRemoveAll
    /\ pre = reg
    /\ trail = <<>>
    /\ budget = MaxInstalls
    /\ clock = 0
    /\ deadline = 0
    /\ status = "none"
    /\ polls = 0
    /\ handles = NoHandles
    /\ deferred = <<>>
    /\ inv = <<>>
    /\ NoService

\* Stop: mgr.Connect()
StopConnect ==
    /\ pc = "idle"
    /\ warns' = {}
    /\ \E ok \in BOOLEAN :
        IF ok
        THEN pc' = "stop_open" /\ result' = "none" /\ AcquireDeferred("scm")
        ELSE pc' = "idle" /\ result' = "failed to connect to service manager"
                /\ ReturnWith(handles)
    /\ clock' = 0 /\ deadline' = 0 /\ status' = "none" /\ polls' = 0
    /\ UNCHANGED <<reg, file, svc, denied, ca, ra, pre, trail, budget>>
    /\ UNCHANGED otherVars

\* Stop: m.OpenService(name)
StopOpenService ==
    /\ pc = "stop_open"
    /\ IF svc = "NotInstalled"
       THEN pc' = "idle" /\ result' = "could not access service" /\ ReturnWith(handles)
       ELSE pc' = "stop_control" /\ UNCHANGED result /\ AcquireDeferred("service")
    /\ UNCHANGED <<reg, file, svc, denied, warns, ca, ra, pre, trail, budget>>
    /\ UNCHANGED pollVars
    /\ UNCHANGED otherVars

\* Stop: s.Control(svc.Stop), accepted only by a running service, and
\* timeout := time.Now().Add(30 * time.Second)
StopControl ==
    /\ pc = "stop_control"
    /\ \E ok \in BOOLEAN :
        IF ok /\ svc = "Running"
        THEN /\ \E st \in {"StopPending", "Stopped"} : svc' = st /\ status' = st
             /\ deadline' = clock + WaitTimeout
             /\ pc' = "stop_loop"
             /\ UNCHANGED result
             /\ Hold
        ELSE /\ result' = "could not send stop control"
             /\ pc' = "idle"
             /\ UNCHANGED <<svc, status, deadline>>
             /\ ReturnWith(handles)
    /\ UNCHANGED <<reg, file, denied, warns, ca, ra, pre, trail, budget, clock, polls>>
    /\ UNCHANGED otherVars

\* Stop's loop head reporting success when the deadline has passed
StopLoop_SuccessOnTimeout ==
    /\ pc = "stop_loop"
    /\ IF status = "Stopped" \/ clock > deadline
       THEN /\ result' = ""
            /\ warns' = warns \cup {"Service stopped successfully"}
            /\ pc' = "idle"
            /\ ReturnWith(handles)
       ELSE /\ pc' = "stop_sleep"
            /\ UNCHANGED <<result, warns>>
            /\ Hold
    /\ UNCHANGED <<reg, file, svc, denied, ca, ra, pre, trail, budget>>
    /\ UNCHANGED pollVars
    /\ UNCHANGED otherVars

\* Stop: for status.State != svc.Stopped { if time.Now().After(timeout) ...
StopLoop ==
    /\ pc = "stop_loop"
    /\ IF status = "Stopped"
       THEN /\ result' = ""
            /\ warns' = warns \cup {"Service stopped successfully"}
            /\ pc' = "idle"
            /\ ReturnWith(handles)
       ELSE IF clock > deadline
       THEN /\ result' = "service did not stop within timeout"
            /\ pc' = "idle"
            /\ UNCHANGED warns
            /\ ReturnWith(handles)
       ELSE /\ pc' = "stop_sleep"
            /\ UNCHANGED <<result, warns>>
            /\ Hold
    /\ UNCHANGED <<reg, file, svc, denied, ca, ra, pre, trail, budget>>
    /\ UNCHANGED pollVars
    /\ UNCHANGED otherVars

\* the sleep and query of Stop taking a failed query for the end of the wait
StopSleepQuery_ErrorIsSuccess ==
    /\ pc = "stop_sleep"
    /\ \E lag \in 0..MaxLag : clock' = Sleep(clock, lag)
    /\ polls' = polls + 1
    /\ \E q \in ServiceStates \cup {"error"} :
        IF q = "error"
        THEN /\ result' = ""
             /\ pc' = "idle"
             /\ status' = "none"
             /\ UNCHANGED svc
             /\ ReturnWith(handles)
        ELSE /\ status' = q
             /\ svc' = q
             /\ pc' = "stop_loop"
             /\ UNCHANGED result
             /\ Hold
    /\ UNCHANGED <<reg, file, denied, warns, ca, ra, pre, trail, budget, deadline>>
    /\ UNCHANGED otherVars

\* Stop: time.Sleep and s.Query(); the service manager may report any state
StopSleepQuery ==
    /\ pc = "stop_sleep"
    /\ \E lag \in 0..MaxLag : clock' = Sleep(clock, lag)
    /\ polls' = polls + 1
    /\ \E q \in ServiceStates \cup {"error"} :
        IF q = "error"
        THEN /\ result' = "could not query service status"
             /\ pc' = "idle"
             /\ status' = "none"
             /\ UNCHANGED svc
             /\ ReturnWith(handles)
        ELSE /\ status' = q
             /\ svc' = q
             /\ pc' = "stop_loop"
             /\ UNCHANGED result
             /\ Hold
    /\ UNCHANGED <<reg, file, denied, warns, ca, ra, pre, trail, budget, deadline>>
    /\ UNCHANGED otherVars

\* Remove: s.Control(svc.Stop), a failure is a warning and leaves status zero,
\* and timeout := time.Now().Add(30 * time.Second)
RemoveControl ==
    /\ pc = "remove_stop"
    /\ \E ok \in BOOLEAN :
        IF ok /\ svc = "Running"
        THEN /\ \E st \in {"StopPending", "Stopped"} : svc' = st /\ status' = st
             /\ UNCHANGED warns
        ELSE /\ status' = "none"
             /\ warns' = warns \cup {"Failed to stop service"}
             /\ UNCHANGED svc
    /\ clock' = 0
    /\ deadline' = WaitTimeout
    /\ polls' = 0
    /\ pc' = "remove_loop"
    /\ Hold
    /\ UNCHANGED <<reg, file, denied, result, ca, ra, pre, trail, budget>>
    /\ UNCHANGED otherVars

\* Remove's loop head returning the timeout as an error, as Stop does
RemoveLoop_AbortOnTimeout ==
    /\ pc = "remove_loop"
    /\ IF status = "Stopped"
       THEN pc' = "remove_delete" /\ UNCHANGED <<warns, result>> /\ Hold
       ELSE IF clock > deadline
       THEN /\ result' = "service did not stop within timeout"
            /\ pc' = "idle"
            /\ UNCHANGED warns
            /\ ReturnWith(handles)
       ELSE pc' = "remove_sleep" /\ UNCHANGED <<warns, result>> /\ Hold
    /\ UNCHANGED <<reg, file, svc, denied, ca, ra, pre, trail, budget>>
    /\ UNCHANGED pollVars
    /\ UNCHANGED otherVars

\* Remove: for status.State != svc.Stopped { if time.Now().After(timeout) ...
RemoveLoop ==
    /\ pc = "remove_loop"
    /\ IF status = "Stopped"
       THEN pc' = "remove_delete" /\ UNCHANGED warns
       ELSE IF clock > deadline
       THEN /\ warns' = warns \cup {"Service did not stop within timeout"}
            /\ pc' = "remove_delete"
       ELSE pc' = "remove_sleep" /\ UNCHANGED warns
    /\ UNCHANGED <<reg, file, svc, denied, result, ca, ra, pre, trail, budget>>
    /\ UNCHANGED pollVars
    /\ Hold
    /\ UNCHANGED otherVars

\* Remove: time.Sleep and s.Query(); a failed query ends the wait
RemoveSleepQuery ==
    /\ pc = "remove_sleep"
    /\ \E lag \in 0..MaxLag : clock' = Sleep(clock, lag)
    /\ polls' = polls + 1
    /\ Hold
    /\ \E q \in ServiceStates \cup {"error"} :
        IF q = "error"
        THEN /\ warns' = warns \cup {"Failed to query service status"}
             /\ pc' = "remove_delete"
             /\ status' = "none"
             /\ UNCHANGED svc
        ELSE /\ status' = q
             /\ svc' = q
             /\ pc' = "remove_loop"
             /\ UNCHANGED warns
    /\ UNCHANGED <<reg, file, denied, result, ca, ra, pre, trail, budget, deadline>>
    /\ UNCHANGED otherVars

NextPoll ==
    \/ StopConnect
    \/ StopOpenService
    \/ StopControl
    \/ StopLoop
    \/ StopSleepQuery
    \/ RemoveConnect
    \/ RemoveOpenService
    \/ RemoveControl
    \/ RemoveLoop
    \/ RemoveSleepQuery
    \/ RemoveDelete
    \/ RemoveRegistry

SpecPoll == InitPoll /\ [][NextPoll]_vars

\* every status query returns and the clock advances: a loop that can take
\* its next step takes it
SpecPollFair ==
    /\ SpecPoll
    /\ WF_vars(StopLoop) /\ WF_vars(StopSleepQuery)
    /\ WF_vars(RemoveLoop) /\ WF_vars(RemoveSleepQuery)

\* Remove runs on: the stop control and the deletion return as well
SpecRemoveFair ==
    /\ SpecPollFair
    /\ WF_vars(RemoveControl) /\ WF_vars(RemoveDelete)

----------------------------------------------------------------------------
(* service.Start, the wait of Stop as one step, and the command line *)

\* Start: mgr.Connect()
StartConnect ==
    /\ pc = "idle"
    /\ warns' = {}
    /\ \E ok \in BOOLEAN :
        IF ok
        THEN pc' = "start_open" /\ result' = "none" /\ AcquireDeferred("scm")
        ELSE pc' = "idle" /\ result' = "failed to connect to service manager"
                /\ ReturnWith(handles)
    /\ UNCHANGED <<reg, file, svc, denied, ca, ra, pre, trail, budget>>
    /\ UNCHANGED pollVars
    /\ UNCHANGED otherVars

\* Start: m.OpenService(name)
StartOpenService ==
    /\ pc = "start_open"
    /\ IF svc = "NotInstalled"
       THEN pc' = "idle" /\ result' = "could not access service" /\ ReturnWith(handles)
       ELSE pc' = "start_service" /\ UNCHANGED result /\ AcquireDeferred("service")
    /\ UNCHANGED <<reg, file, svc, denied, warns, ca, ra, pre, trail, budget>>
    /\ UNCHANGED pollVars
    /\ UNCHANGED otherVars

\* Start: s.Start(), accepted only by a stopped service
StartService ==
    /\ pc = "start_service"
    /\ \E ok \in BOOLEAN :
        IF ok /\ svc = "Stopped"
        THEN svc' = "Running" /\ result' = ""
        ELSE svc' = svc /\ result' = "could not start service"
    /\ pc' = "idle"
    /\ UNCHANGED <<reg, file, denied, warns, ca, ra, pre, trail, budget>>
    /\ UNCHANGED pollVars
    /\ ReturnWith(handles)
    /\ UNCHANGED otherVars

\* Stop: the wait for svc.Stopped as one step: left with success on Stopped,
\* with an error on the deadline or on a failed query
StopWait ==
    /\ pc = "stop_loop"
    /\ \E out \in {"stopped", "timeout", "queryfail"} :
        CASE out = "stopped" ->
                /\ svc \in {"Stopped", "StopPending"}
                /\ svc' = "Stopped"
                /\ status' = "Stopped"
                /\ result' = ""
                /\ warns' = warns \cup {"Service stopped successfully"}
          [] out = "timeout" ->
                /\ svc # "Stopped"
                /\ svc' = svc
                /\ status' = svc
                /\ result' = "service did not stop within timeout"
                /\ UNCHANGED warns
          [] out = "queryfail" ->
                /\ status # "Stopped"
                /\ svc' = svc
                /\ status' = "none"
                /\ result' = "could not query service status"
                /\ UNCHANGED warns
    /\ pc' = "idle"
    /\ ReturnWith(handles)
    /\ UNCHANGED <<reg, file, denied, ca, ra, pre, trail, budget, clock, deadline, polls>>
    /\ UNCHANGED otherVars

LevelDebug == 0
LevelInfo == 1
LevelWarn == 2
LevelError == 3
LevelFatal == 4

\* Logger.log that never ends the process
log_NoExit(level, minLevel) ==
    [printed |-> level >= minLevel, exits |-> FALSE]

\* Logger.log: a message under the logger's level is dropped before anything
\* else; a fatal one ends the process with status 1 after it was written
log(level, minLevel) ==
    IF level < minLevel
    THEN [printed |-> FALSE, exits |-> FALSE]
    ELSE [printed |-> TRUE, exits |-> level = LevelFatal]

\* the levels logger.New gives a logger: development and production
LoggerLevels == {LevelDebug, LevelInfo}

Commands == {"install", "remove", "uninstall", "start", "stop"}

FatalMessage(cmd) ==
    CASE cmd = "install" -> "Failed to install service"
      [] cmd \in {"remove", "uninstall"} -> "Failed to remove service"
      [] cmd = "start" -> "Failed to start service"
      [] cmd = "stop" -> "Failed to stop service"

SuccessMessage(cmd) ==
    CASE cmd = "install" -> "Service RDPLauncher installed successfully"
      [] cmd \in {"remove", "uninstall"} -> "Service RDPLauncher removed successfully"
      [] cmd = "start" -> "Service RDPLauncher started successfully"
      [] cmd = "stop" -> "Service RDPLauncher stopped successfully"

\* handleCommand once the operation of the command has returned err: the
\* exit status of the process, what was logged as fatal and what was printed
handleCommand(cmd, err, minLevel) ==
    LET f == log(LevelFatal, minLevel)
    IN  IF err # "" /\ f.exits
        THEN [exit |-> 1, logged |-> FatalMessage(cmd), stdout |-> ""]
        ELSE [exit |-> 0,
              logged |-> IF err # "" /\ f.printed THEN FatalMessage(cmd) ELSE "",
              stdout |-> SuccessMessage(cmd)]

\* the commands on a registry that holds at most the launcher's own key,
\* with or without the fault that this key cannot be written
InitCommands ==
    /\ reg \in {r \in InitRegs : r.keys \subseteq {KLauncher}}
    /\ file = NoFile
    /\ svc \in {"NotInstalled", "Stopped"}
    /\ denied \in {NoFaults, [NoFaults EXCEPT !.open = {KLauncher}]}
    /\ pc = "idle"
    /\ result = "none"
    /\ warns = {}
    /\ ca = NoCreateAll
    /\ ra = NoRemoveAll
    /\ pre = reg
    /\ trail = <<>>
    /\ budget = MaxInstalls
    /\ clock = 0
    /\ deadline = 0
    /\ status = "none"
    /\ polls = 0
    /\ handles = NoHandles
    /\ deferred = <<>>
    /\ inv = <<>>
    /\ NoService

NextCommands ==
    \/ InstallBegin
    \/ InstallCreateAll
    \/ InstallConnect
    \/ InstallOpenService
    \/ InstallCreateService
    \/ InstallStart
    \/ RemoveConnect
    \/ RemoveOpenService
    \/ RemoveStop
    \/ RemoveWait
    \/ RemoveDelete
    \/ RemoveRegistry
    \/ StartConnect
    \/ StartOpenService
    \/ StartService
    \/ StopConnect
    \/ StopOpenService
    \/ StopControl
    \/ StopWait

SpecCommands == InitCommands /\ [][NextCommands]_vars

----------------------------------------------------------------------------
(* Two invocations of the command line at once on one data directory. Each
   runs Install or Remove once; a step is one access to the registry, to the
   backup file or to the service manager, so that the accesses of the two
   interleave in every order. The environment has no faults here. *)

Invocations == {1, 2}

Other(i) == 3 - i

\* what the commands run one at a time read and write, the shared registry,
\* file and service apart
raceFrame ==
    <<denied, pc, result, warns, ca, ra, pre, trail, budget,
      clock, deadline, status, polls, handles, deferred, execVars>>

\* the backup file behind a lock an invocation holds from its first step to
\* its return
FileFree_Exclusive(i) == inv[Other(i)].pc \in {"idle", "done"}

\* os.WriteFile, os.Stat/os.ReadFile and os.Remove take no lock: an access to
\* the backup file never waits for the other invocation
FileFree(i) == TRUE

InitRace ==
    /\ reg \in InitRegs
    /\ file = NoFile
    /\ svc \in {"NotInstalled", "Stopped"}
    /\ denied = NoFaults
    /\ pc = "idle"
    /\ result = "none"
    /\ warns = {}
    /\ ca = NoCreateAll
    /\ ra = NoRemoveAll
    /\ pre = reg
    /\ trail = <<>>
    /\ budget = MaxInstalls
    /\ clock = 0
    /\ deadline = 0
    /\ status = "none"
    /\ polls = 0
    /\ handles = NoHandles
    /\ deferred = <<>>
    /\ inv = [i \in Invocations |->
                [op |-> "none", pc |-> "idle", backups |-> <<>>,
                 loaded |-> [backups |-> <<>>, err |-> ""],
                 result |-> "none"]]
    /\ NoService

\* Install, CreateAll: the loop over the catalog
RaceInstallCreate(i) ==
    /\ inv[i].pc = "idle"
    /\ \E l \in {createLoop(regMgr.entries, 1, reg, <<>>, <<>>, denied)} :
        /\ reg' = l.reg
        /\ inv' = [inv EXCEPT ![i].op = "Install", ![i].pc = "save", ![i].backups = l.backups]
    /\ UNCHANGED <<file, svc>>
    /\ UNCHANGED raceFrame

\* Install, CreateAll: SaveBackups
RaceInstallSave(i) ==
    /\ inv[i].pc = "save"
    /\ FileFree(i)
    /\ file' = SaveBackups(inv[i].backups, file, TRUE).file
    /\ inv' = [inv EXCEPT ![i].pc = "open"]
    /\ UNCHANGED <<reg, svc>>
    /\ UNCHANGED raceFrame

\* Install: mgr.Connect and m.OpenService; a service that exists rolls back
RaceInstallOpen(i) ==
    /\ inv[i].pc = "open"
    /\ \E ok \in BOOLEAN :
        IF ~ok
        THEN inv' = [inv EXCEPT ![i].pc = "load",
                                ![i].result = "failed to connect to service manager"]
        ELSE IF svc # "NotInstalled"
        THEN inv' = [inv EXCEPT ![i].pc = "load", ![i].result = "service already exists"]
        ELSE inv' = [inv EXCEPT ![i].pc = "createsvc"]
    /\ UNCHANGED <<reg, file, svc>>
    /\ UNCHANGED raceFrame

\* Install: m.CreateService and s.Start
RaceInstallCreateService(i) ==
    /\ inv[i].pc = "createsvc"
    /\ IF svc = "NotInstalled"
       THEN /\ svc' \in {"Running", "Stopped"}
            /\ inv' = [inv EXCEPT ![i].pc = "done", ![i].result = ""]
       ELSE /\ svc' = svc
            /\ inv' = [inv EXCEPT ![i].pc = "load", ![i].result = "failed to create service"]
    /\ UNCHANGED <<reg, file>>
    /\ UNCHANGED raceFrame

\* Remove: mgr.Connect and m.OpenService
RaceRemoveOpen(i) ==
    /\ inv[i].pc = "idle"
    /\ IF svc = "NotInstalled"
       THEN inv' = [inv EXCEPT ![i].op = "Remove", ![i].pc = "done",
                               ![i].result = "service is not installed"]
       ELSE inv' = [inv EXCEPT ![i].op = "Remove", ![i].pc = "svcdelete"]
    /\ UNCHANGED <<reg, file, svc>>
    /\ UNCHANGED raceFrame

\* Remove: the stop attempt and s.Delete
RaceRemoveDelete(i) ==
    /\ inv[i].pc = "svcdelete"
    /\ IF svc # "NotInstalled"
       THEN /\ svc' = "NotInstalled"
            /\ inv' = [inv EXCEPT ![i].pc = "load", ![i].result = ""]
       ELSE /\ svc' = svc
            /\ inv' = [inv EXCEPT ![i].pc = "done", ![i].result = "failed to delete service"]
    /\ UNCHANGED <<reg, file>>
    /\ UNCHANGED raceFrame

\* RemoveAll: LoadBackups
RaceLoad(i) ==
    /\ inv[i].pc = "load"
    /\ FileFree(i)
    /\ inv' = [inv EXCEPT ![i].pc = "restore", ![i].loaded = LoadBackups(file)]
    /\ UNCHANGED <<reg, file, svc>>
    /\ UNCHANGED raceFrame

\* RemoveAll: Restore or the deletion of the catalog values, then the pruning
RaceRestore(i) ==
    /\ inv[i].pc = "restore"
    /\ \E first \in {IF inv[i].loaded.err # ""
                     THEN removeValuesLoop(regMgr.entries, 1, reg, <<>>, denied).reg
                     ELSE Restore(reg, inv[i].loaded.backups, denied).reg} :
        reg' = pruneLoop(regMgr.entries, 1, first, {}, <<>>, denied).reg
    /\ inv' = [inv EXCEPT ![i].pc = "delete"]
    /\ UNCHANGED <<file, svc>>
    /\ UNCHANGED raceFrame

\* RemoveAll: DeleteBackupFile, and the return of the command
RaceDeleteFile(i) ==
    /\ inv[i].pc = "delete"
    /\ FileFree(i)
    /\ file' = DeleteBackupFile(file, TRUE).file
    /\ inv' = [inv EXCEPT ![i].pc = "done"]
    /\ UNCHANGED <<reg, svc>>
    /\ UNCHANGED raceFrame

RaceStep(i) ==
    \/ RaceInstallCreate(i)
    \/ RaceInstallSave(i)
    \/ RaceInstallOpen(i)
    \/ RaceInstallCreateService(i)
    \/ RaceRemoveOpen(i)
    \/ RaceRemoveDelete(i)
    \/ RaceLoad(i)
    \/ RaceRestore(i)
    \/ RaceDeleteFile(i)

NextRace ==
    \/ \E i \in Invocations : RaceInstallCreate(i)
    \/ \E i \in Invocations : RaceInstallSave(i)
    \/ \E i \in Invocations : RaceInstallOpen(i)
    \/ \E i \in Invocations : RaceInstallCreateService(i)
    \/ \E i \in Invocations : RaceRemoveOpen(i)
    \/ \E i \in Invocations : RaceRemoveDelete(i)
    \/ \E i \in Invocations : RaceLoad(i)
    \/ \E i \in Invocations : RaceRestore(i)
    \/ \E i \in Invocations : RaceDeleteFile(i)

SpecRace == InitRace /\ [][NextRace]_vars

----------------------------------------------------------------------------
(* The service process: Execute under the service manager, RunDebug on a
   console. Execute (or RunDebug) and the goroutine that runs server.Start
   take their steps in any order; the service manager sends control requests
   and the HTTP server may fail at any time. *)

\* control requests: the three Execute names, and one it does not
Cmds == {"Interrogate", "Stop", "Shutdown", "Pause"}

\* make(chan error) instead of make(chan error, 1): the channel holds no
\* element, a send completes only while the receiver is at the select
ErrChanCap_Unbuffered == Len(<<>>)

\* make(chan error, 1)
ErrChanCap == 1

\* c.CurrentStatus: the status the service reported last
CurrentStatus == changes[Len(changes)]

InitExec ==
    /\ reg = RegOf({})
    /\ file = NoFile
    /\ svc = "Stopped"
    /\ denied = NoFaults
    /\ pc = "idle"
    /\ result = "none"
    /\ warns = {}
    /\ ca = NoCreateAll
    /\ ra = NoRemoveAll
    /\ pre = reg
    /\ trail = <<>>
    /\ budget = MaxInstalls
    /\ clock = 0
    /\ deadline = 0
    /\ status = "none"
    /\ polls = 0
    /\ handles = NoHandles
    /\ deferred = <<>>
    /\ inv = <<>>
    /\ mode \in {"service", "debug"}
    /\ xpc = "begin"
    /\ gpc = "none"
    /\ errChan = <<>>
    /\ changes = <<>>
    /\ reqs = 0
    /\ shut = 0
    /\ xres = "none"
    /\ xlog = {}

\* changes <- svc.Status{State: svc.StartPending}
ExecStartPending ==
    /\ mode = "service"
    /\ xpc = "begin"
    /\ changes' = Append(changes, "StartPending")
    /\ xlog' = xlog \cup {"Service starting"}
    /\ xpc' = "go"
    /\ UNCHANGED <<mode, gpc, errChan, reqs, shut, xres>>
    /\ UNCHANGED <<commandVars, inv>>

\* errChan := make(chan error, 1); go func() { ... }()
ExecGo ==
    /\ xpc = "go"
    /\ gpc' = "started"
    /\ errChan' = <<>>
    /\ xpc' = "running"
    /\ UNCHANGED <<mode, changes, reqs, shut, xres, xlog>>
    /\ UNCHANGED <<commandVars, inv>>

\* changes <- svc.Status{State: svc.Running, Accepts: cmdsAccepted}
ExecRunning ==
    /\ xpc = "running"
    /\ changes' = Append(changes, "Running")
    /\ xlog' = xlog \cup {"Service running"}
    /\ xpc' = "loop"
    /\ UNCHANGED <<mode, gpc, errChan, reqs, shut, xres>>
    /\ UNCHANGED <<commandVars, inv>>

\* select, case err := <-errChan: break loop
ExecRecvErr ==
    /\ xpc = "loop"
    /\ errChan # <<>>
    /\ errChan' = Tail(errChan)
    /\ xlog' = xlog \cup {"Server failed"}
    /\ xpc' = "leave"
    /\ UNCHANGED <<mode, gpc, changes, reqs, shut, xres>>
    /\ UNCHANGED <<commandVars, inv>>

\* a Stop or Shutdown request that leaves the loop without server.Shutdown
ExecRequest_NoShutdown ==
    /\ xpc = "loop"
    /\ reqs < MaxRequests
    /\ reqs' = reqs + 1
    /\ \E c \in Cmds :
        CASE c = "Interrogate" ->
                /\ changes' = Append(changes, CurrentStatus)
                /\ UNCHANGED <<xpc, shut, xlog>>
          [] c \in {"Stop", "Shutdown"} ->
                /\ xlog' = xlog \cup {"Service stop requested"}
                /\ xpc' = "leave"
                /\ UNCHANGED <<changes, shut>>
          [] OTHER ->
                /\ xlog' = xlog \cup {"Unexpected service control request"}
                /\ UNCHANGED <<xpc, shut, changes>>
    /\ UNCHANGED <<mode, gpc, errChan, xres>>
    /\ UNCHANGED <<commandVars, inv>>

\* select, case c := <-r: the switch on c.Cmd. server.Shutdown returns within
\* its 30 s context, with or without an error
ExecRequest ==
    /\ xpc = "loop"
    /\ reqs < MaxRequests
    /\ reqs' = reqs + 1
    /\ \E c \in Cmds :
        CASE c = "Interrogate" ->
                /\ changes' = Append(changes, CurrentStatus)
                /\ UNCHANGED <<xpc, shut, xlog>>
          [] c \in {"Stop", "Shutdown"} ->
                /\ shut' = shut + 1
                /\ \E ok \in BOOLEAN :
                    xlog' = xlog \cup {"Service stop requested"}
                                 \cup (IF ok THEN {} ELSE {"Error during server shutdown"})
                /\ xpc' = "leave"
                /\ UNCHANGED changes
          [] OTHER ->
                /\ xlog' = xlog \cup {"Unexpected service control request"}
                /\ UNCHANGED <<xpc, shut, changes>>
    /\ UNCHANGED <<mode, gpc, errChan, xres>>
    /\ UNCHANGED <<commandVars, inv>>

\* Execute skipping the last status
ExecStopPending_Silent ==
    /\ xpc = "leave"
    /\ xlog' = xlog \cup {"Service stopped"}
    /\ xres' = "0"
    /\ xpc' = "returned"
    /\ UNCHANGED <<mode, gpc, errChan, changes, reqs, shut>>
    /\ UNCHANGED <<commandVars, inv>>

\* changes <- svc.Status{State: svc.StopPending}; return false, 0
ExecStopPending ==
    /\ xpc = "leave"
    /\ changes' = Append(changes, "StopPending")
    /\ xlog' = xlog \cup {"Service stopped"}
    /\ xres' = "0"
    /\ xpc' = "returned"
    /\ UNCHANGED <<mode, gpc, errChan, reqs, shut>>
    /\ UNCHANGED <<commandVars, inv>>

\* RunDebug: make(chan error, 1) and go func() { ... }()
DebugGo ==
    /\ mode = "debug"
    /\ xpc = "begin"
    /\ gpc' = "started"
    /\ errChan' = <<>>
    /\ xlog' = xlog \cup {"Server running. Press Ctrl+C to stop"}
    /\ xpc' = "select"
    /\ UNCHANGED <<mode, changes, reqs, shut, xres>>
    /\ UNCHANGED <<commandVars, inv>>

\* RunDebug: select, case err := <-errChan
DebugRecvErr ==
    /\ xpc = "select"
    /\ errChan # <<>>
    /\ errChan' = Tail(errChan)
    /\ xres' = "server error"
    /\ xpc' = "returned"
    /\ UNCHANGED <<mode, gpc, changes, reqs, shut, xlog>>
    /\ UNCHANGED <<commandVars, inv>>

\* RunDebug: select, case sig := <-sigChan, then srv.Shutdown
DebugSignal ==
    /\ xpc = "select"
    /\ shut' = shut + 1
    /\ \E ok \in BOOLEAN :
        IF ok
        THEN xres' = "" /\ xlog' = xlog \cup {"Server stopped gracefully"}
        ELSE xres' = "shutdown error" /\ xlog' = xlog \cup {"Error during shutdown"}
    /\ xpc' = "returned"
    /\ UNCHANGED <<mode, gpc, errChan, changes, reqs>>
    /\ UNCHANGED <<commandVars, inv>>

\* the goroutine: server.Start returns an error (ListenAndServe failed)
GoStartFails ==
    /\ gpc = "started"
    /\ shut = 0
    /\ gpc' = "failed"
    /\ xlog' = IF mode = "service" THEN xlog \cup {"Server error"} ELSE xlog
    /\ UNCHANGED <<mode, xpc, errChan, changes, reqs, shut, xres>>
    /\ UNCHANGED <<commandVars, inv>>

\* the goroutine: server.Start returns nil (http.ErrServerClosed after
\* Shutdown) and the goroutine ends
GoStartClosed ==
    /\ gpc = "started"
    /\ shut > 0
    /\ gpc' = "exited"
    /\ UNCHANGED <<mode, xpc, errChan, changes, reqs, shut, xres, xlog>>
    /\ UNCHANGED <<commandVars, inv>>

\* the goroutine: errChan <- err, which waits while the buffer is full
GoSend ==
    /\ gpc = "failed"
    /\ \/ Len(errChan) < ErrChanCap
       \/ ErrChanCap = 0 /\ xpc \in {"loop", "select"}
    /\ errChan' = Append(errChan, "server error")
    /\ gpc' = "exited"
    /\ UNCHANGED <<mode, xpc, changes, reqs, shut, xres, xlog>>
    /\ UNCHANGED <<commandVars, inv>>

NextExec ==
    \/ ExecStartPending
    \/ ExecGo
    \/ ExecRunning
    \/ ExecRecvErr
    \/ ExecRequest
    \/ ExecStopPending
    \/ DebugGo
    \/ DebugRecvErr
    \/ DebugSignal
    \/ GoStartFails
    \/ GoStartClosed
    \/ GoSend

SpecExec == InitExec /\ [][NextExec]_vars

\* the Go scheduler runs every goroutine that can take a step; requests,
\* signals and server failures are the environment's and may never come
SpecExecFair ==
    /\ SpecExec
    /\ WF_vars(ExecStartPending)
    /\ WF_vars(ExecGo)
    /\ WF_vars(ExecRunning)
    /\ WF_vars(ExecRecvErr)
    /\ WF_vars(ExecStopPending)
    /\ WF_vars(DebugGo)
    /\ WF_vars(DebugRecvErr)
    /\ WF_vars(GoStartClosed)
    /\ WF_vars(GoSend)

----------------------------------------------------------------------------
(* Properties *)

NamedIdx == {i \in 1..NEntries : Catalog[i].Name # ""}

\* CreateAll has just returned in Install
AfterCreateAll == pc = "install_connect"

\* a command has returned, the last CreateAll was followed by exactly one
\* RemoveAll or Restore, and the environment holds no fault
RoundTripDone ==
    /\ pc = "idle"
    /\ trail \in {<<"CreateAll", "RemoveAll">>, <<"CreateAll", "Restore">>}
    /\ denied = NoFaults

\* the entries on which the environment makes create fail
FailsAt(e) == KeyOf(e) \in denied.open \/ (e.Name # "" /\ KeyOf(e) \in denied.set)

\* the index in the catalog of the entry a backup snapshots
IndexOf(b) == CHOOSE i \in 1..NEntries : SlotOf(Catalog[i]) = SlotOf(b.Entry)

\* C1 (as claimed): a catalog value that existed with value V of the declared
\* type before Install holds V again, with its type, after CreateAll, the
\* save and load of the backup file and Restore, and Restore reports no
\* failure for it.
C1_ValuePreservation ==
    RoundTripDone =>
        \A i \in NamedIdx :
            pre.vals[SlotOf(Catalog[i])].type = Catalog[i].Type =>
                /\ reg.vals[SlotOf(Catalog[i])] = pre.vals[SlotOf(Catalog[i])]
                /\ \A j \in 1..Len(ra.loaded) :
                      SlotOf(ra.loaded[j].Entry) = SlotOf(Catalog[i]) =>
                          \A n \in 1..Len(ra.restored) : ra.restored[n] # j

\* C2 (as claimed): a catalog value that did not exist before Install does
\* not exist after Install followed by Remove, whether its key was absent,
\* present, or created earlier in the same CreateAll run.
C2_AbsentValueRemoved ==
    RoundTripDone =>
        \A i \in NamedIdx :
            pre.vals[SlotOf(Catalog[i])] = NoValue =>
                reg.vals[SlotOf(Catalog[i])] = NoValue

\* C3 (as claimed): when Install fails at the connect, at the already-exists
\* check or at service creation, the registry (keys and values of all catalog
\* paths) is what it was before Install began.
C3_RollbackAtomicity ==
    (/\ pc = "idle"
     /\ trail = <<"CreateAll", "RemoveAll">>
     /\ denied = NoFaults
     /\ result \in {"failed to connect to service manager",
                    "service already exists",
                    "failed to create service"})
        => reg = pre

\* C4 (as claimed): a key that did not exist before CreateAll is absent again
\* after CreateAll followed by Restore or RemoveAll, the keys created on the
\* way included.
C4_NoKeyResidue ==
    RoundTripDone => \A k \in AllKeys : k \notin pre.keys => k \notin reg.keys

\* C5 (as claimed): LoadBackups after SaveBackups returns the backup set that
\* CreateAll produced, record by record, each value with the dynamic type it
\* was saved with.
C5_BackupFileRoundTrip ==
    (AfterCreateAll /\ file.exists) => LoadBackups(file).backups = ca.backups

\* C6: the step of Install in which s.Start() fails returns success, leaves the
\* service installed, invokes no RemoveAll and leaves the registry and the
\* backup file as CreateAll left them.
C6_FailedStartNonFatal ==
    [][(pc = "install_start" /\ "Service created but failed to start" \in warns') =>
            /\ pc' = "idle"
            /\ result' = ""
            /\ svc' = "Stopped"
            /\ trail' = <<"CreateAll">>
            /\ ra' = NoRemoveAll
            /\ reg' = reg
            /\ file' = file]_vars

C6_Witness ==
    /\ pc = "idle"
    /\ "Service created but failed to start" \in warns
    /\ result = ""
    /\ svc = "Stopped"
    /\ file.exists
    /\ \A i \in NamedIdx : reg.vals[SlotOf(Catalog[i])] # NoValue

\* C7: when entries fail in CreateAll, the returned backups are, in catalog
\* order, those of the entries that did not fail, CreateAll returns an error,
\* and the backup file (when the data directory can be written) holds exactly
\* the returned set.
C7_PartialFailurePersistence ==
    AfterCreateAll =>
        /\ [j \in 1..Len(ca.backups) |-> SlotOf(ca.backups[j].Entry)]
             = [j \in 1..Len(SelectSeq(Catalog, LAMBDA e : ~FailsAt(e))) |->
                   SlotOf(SelectSeq(Catalog, LAMBDA e : ~FailsAt(e))[j])]
        /\ (\E i \in 1..NEntries : FailsAt(Catalog[i])) => ca.err # ""
        /\ ~denied.nosave =>
              /\ file.exists
              /\ Len(file.recs) = Len(ca.backups)
              /\ \A j \in 1..Len(ca.backups) :
                    /\ file.recs[j].RootKey = ca.backups[j].Entry.Root
                    /\ file.recs[j].Path = ca.backups[j].Entry.Path
                    /\ file.recs[j].Name = ca.backups[j].Entry.Name
                    /\ file.recs[j].Type = ca.backups[j].Entry.Type
                    /\ file.recs[j].Existed = ca.backups[j].Existed
                    /\ file.recs[j].Value.text = ca.backups[j].Entry.Value.v

C7_Witness ==
    /\ AfterCreateAll
    /\ Len(ca.errors) > 0
    /\ ca.err # ""
    /\ Len(ca.backups) > 0
    /\ file.exists
    /\ Len(file.recs) = Len(ca.backups)

\* C8 (as claimed): after CreateAll the backup set holds one Backup per
\* catalog entry, in catalog order, the failed entries included.
C8_OneBackupPerEntry ==
    AfterCreateAll =>
        /\ Len(ca.backups) = NEntries
        /\ \A i \in 1..NEntries : SlotOf(ca.backups[i].Entry) = SlotOf(Catalog[i])

\* C8 (amended): after CreateAll the backup set holds exactly one Backup per
\* catalog entry whose create succeeded, in catalog order; an entry whose key
\* creation or value write failed is reported in the errors and has no Backup.
C8_OneBackupPerSucceededEntry ==
    AfterCreateAll =>
        /\ Len(ca.backups) + Len(ca.errors) = NEntries
        /\ \A i \in 1..NEntries :
              LET nb == Cardinality({j \in 1..Len(ca.backups) :
                                        SlotOf(ca.backups[j].Entry) = SlotOf(Catalog[i])})
                  ne == Cardinality({j \in 1..Len(ca.errors) :
                                        /\ ca.errors[j].Path = Catalog[i].Path
                                        /\ ca.errors[j].Name = Catalog[i].Name})
              IN  nb + ne = 1
        /\ \A j, k \in 1..Len(ca.backups) :
              j < k => IndexOf(ca.backups[j]) < IndexOf(ca.backups[k])
        /\ \A j \in 1..Len(ca.backups) :
              ca.backups[j].Entry.Type = Catalog[IndexOf(ca.backups[j])].Type

C8_Witness ==
    /\ AfterCreateAll
    /\ Len(ca.errors) > 0
    /\ Len(ca.backups) = NEntries - Len(ca.errors)
    /\ \E j \in 1..Len(ca.backups) : IndexOf(ca.backups[j]) > j

\* the value the typed accessor of the declared type reads from a stored value
TypedRead(v, type) ==
    IF type = SZ /\ v.type \in {SZ, EXPAND_SZ} THEN GoString(v.data)
    ELSE IF type = DWORD /\ v.type \in {DWORD, QWORD} THEN GoUint32(v.data)
    ELSE GoNil

\* C9 (as claimed): in every Backup of CreateAll the recorded value is nil
\* unless existed is true and the value name is non-empty.
C9_NilUnlessExisted ==
    AfterCreateAll =>
        \A j \in 1..Len(ca.backups) :
            ~(ca.backups[j].Existed /\ ca.backups[j].Entry.Name # "") =>
                ca.backups[j].Entry.Value = GoNil

\* C9 (amended): in every Backup of CreateAll with existed true and a
\* non-empty value name the recorded value is the value read from the registry
\* before the write (nil when there was none of the declared type); in every
\* other Backup the recorded value is the catalog entry's own value, the one
\* CreateAll writes, and not nil.
C9_RecordedValue ==
    AfterCreateAll =>
        \A j \in 1..Len(ca.backups) :
            LET b == ca.backups[j]
                e == Catalog[IndexOf(b)]
            IN  IF b.Existed /\ b.Entry.Name # ""
                THEN b.Entry.Value = TypedRead(pre.vals[SlotOf(e)], e.Type)
                ELSE b.Entry.Value = e.Value /\ b.Entry.Value # GoNil

C9_Witness ==
    /\ AfterCreateAll
    /\ \E j \in 1..Len(ca.backups) :
          /\ ~ca.backups[j].Existed
          /\ ca.backups[j].Entry.Name # ""
          /\ ca.backups[j].Entry.Value # GoNil
    /\ \E j \in 1..Len(ca.backups) :
          /\ ca.backups[j].Existed
          /\ ca.backups[j].Entry.Name # ""
          /\ ca.backups[j].Entry.Value # GoNil
    /\ \E j \in 1..Len(ca.backups) :
          /\ ca.backups[j].Existed
          /\ ca.backups[j].Entry.Name # ""
          /\ ca.backups[j].Entry.Value = GoNil

\* C10 (as claimed): after CreateAll on a registry in which no catalog key
\* exists every backup has existed false, also for the entries that share a
\* key path with an earlier entry.
C10_CleanRegistryExistedFalse ==
    (AfterCreateAll /\ pre.keys \cap CatalogKeys = {}) =>
        \A j \in 1..Len(ca.backups) : ~ca.backups[j].Existed

\* the backup sets at hand: the one CreateAll returned and the one on file
BackupSets == {ca.backups, LoadBackups(file).backups}

\* C11: Restore never deletes a key; restoring a backup with existed false
\* deletes at most the one named value of that backup, leaves every other
\* value and every key as they are, and reports no error when the value or
\* its key is already absent.
C11_RestoreDeletesOnlyNamedValue ==
    \A bs \in BackupSets :
        /\ reg.keys \subseteq Restore(reg, bs, denied).reg.keys
        /\ \A j \in 1..Len(bs) :
              LET b == bs[j]
                  s == SlotOf(b.Entry)
                  x == restore(reg, b, denied)
              IN  ~b.Existed =>
                    /\ x.reg.keys = reg.keys
                    /\ \A t \in Slots \ {s} : x.reg.vals[t] = reg.vals[t]
                    /\ s \in Slots => x.reg.vals[s] \in {NoValue, reg.vals[s]}
                    /\ (s \in Slots /\ (reg.vals[s] = NoValue \/ SlotKey(s) \notin reg.keys))
                          => (x.err = "" /\ x.reg = reg)

C11_Witness ==
    /\ pc = "idle"
    /\ trail = <<"CreateAll", "Restore">>
    /\ \E j \in 1..Len(ra.loaded) :
          LET b == ra.loaded[j]
          IN  /\ ~b.Existed
              /\ b.Entry.Name # ""
              /\ KeyOf(b.Entry) \notin pre.keys
              /\ KeyOf(b.Entry) \in reg.keys
              /\ reg.vals[SlotOf(b.Entry)] = NoValue
              /\ \E t \in Slots \ {SlotOf(b.Entry)} :
                    SlotKey(t) = KeyOf(b.Entry) /\ reg.vals[t] # NoValue

\* a step in which Install's rollback or Remove ran RemoveAll
RanRemoveAll ==
    \/ pc = "remove_registry"
    \/ pc \in {"install_connect", "install_open", "install_create"} /\ pc' = "idle"

SeqRange(q) == {q[i] : i \in 1..Len(q)}

BeforePrune ==
    IF LoadBackups(file).err = ""
    THEN Restore(reg, LoadBackups(file).backups, denied).reg
    ELSE removeValuesLoop(Catalog, 1, reg, <<>>, denied).reg

\* C13: a key that RemoveAll deletes is one of the two service-owned paths
\* and holds no value when the restoration is over; a key that holds a value
\* then is still there afterwards and no key failure is reported for it; a
\* key failure is reported only for an owned, empty key whose deletion was
\* refused.
C13_PruneOnlyOwnedEmptyKeys ==
    [][RanRemoveAll =>
          \A bp \in {BeforePrune} :
          \A k \in AllKeys :
              /\ (k \in reg.keys \cup bp.keys /\ k \notin reg'.keys) =>
                    /\ k[2] \in serviceSpecificPaths
                    /\ ReadValueNames(bp, k) = {}
              /\ (k \in bp.keys /\ ReadValueNames(bp, k) # {}) =>
                    k \in reg'.keys
              /\ "failed to delete key" \in SeqRange(ra'.errors) =>
                    \E o \in reg'.keys :
                        /\ o[2] \in serviceSpecificPaths
                        /\ ReadValueNames(bp, o) = {}
                        /\ o \in denied.open \/ \E c \in reg'.keys : o \in Ancestors(c)]_vars

C13_Witness ==
    /\ pc = "idle"
    /\ trail = <<"CreateAll", "RemoveAll">>
    /\ KUser \notin pre.keys /\ KUser \notin reg.keys
    /\ KLauncher \in reg.keys /\ ReadValueNames(reg, KLauncher) # {}
    /\ KAllowList \notin pre.keys /\ KAllowList \in reg.keys
    /\ ReadValueNames(reg, KAllowList) = {}
    /\ "failed to delete key" \notin SeqRange(ra.errors)

\* a step in which the restore-backups command loaded the file and ran Restore
RanRestoreCommand ==
    /\ pc = "idle" /\ pc' = "idle"
    /\ file' = file
    /\ result' \in {"", "failed to restore"}

\* C14: Restore attempts every backup whatever happened to the earlier ones:
\* afterwards the effect of each backup is in the registry (restoring it once
\* more changes nothing), the failed backups are exactly those whose restore
\* fails, each counted once, and Restore returns its error exactly when that
\* count is not zero.
C14_RestoreCollectsFailures ==
    [][RanRestoreCommand =>
          /\ ra'.loaded = LoadBackups(file).backups
          /\ \A j \in 1..Len(ra'.loaded) :
                /\ restore(reg', ra'.loaded[j], denied).reg = reg'
                /\ restore(reg', ra'.loaded[j], denied).err # "" <=> j \in SeqRange(ra'.restored)
          /\ Len(ra'.restored) = Cardinality(SeqRange(ra'.restored))
          /\ ra'.err # "" <=> Len(ra'.restored) > 0
          /\ result' = "failed to restore" <=> Len(ra'.restored) > 0]_vars

C14_Witness ==
    /\ pc = "idle"
    /\ trail = <<"CreateAll", "Restore">>
    /\ denied = NoFaults
    /\ result = "failed to restore"
    /\ Len(ra.restored) > 0
    /\ \E j \in 1..Len(ra.loaded) :
          /\ j > ra.restored[1]
          /\ ~ra.loaded[j].Existed
          /\ ra.loaded[j].Entry.Name # ""
          /\ reg.vals[SlotOf(ra.loaded[j].Entry)] = NoValue

\* reorderings of a backup set: the reversal, the rotations and the exchanges
\* of two backups that are neighbours or share a key path
Reorderings(bs) ==
    LET n == Len(bs)
    IN  {[i \in 1..n |-> bs[n + 1 - i]]}
        \cup {[i \in 1..n |-> bs[((i + k - 1) % n) + 1]] : k \in 1..(n - 1)}
        \cup {[i \in 1..n |-> IF i = p[1] THEN bs[p[2]] ELSE IF i = p[2] THEN bs[p[1]] ELSE bs[i]] :
                 p \in {q \in (1..n) \X (1..n) :
                          /\ q[1] < q[2]
                          /\ q[2] = q[1] + 1 \/ KeyOf(bs[q[1]].Entry) = KeyOf(bs[q[2]].Entry)}}

\* C15: from every registry state, for the backup set CreateAll returned and
\* the one on file, Restore applied twice leaves the registry Restore applied
\* once leaves, and Restore over a reordering of the set leaves the same
\* registry and the same number of failures (checked for the reversal, the
\* rotations and the exchanges of neighbours and of backups sharing a key).
C15_RestoreIdempotentAnyOrder ==
    pc = "idle" =>
        \A bs \in BackupSets :
            \E once \in {Restore(reg, bs, denied)} :
                /\ \E twice \in {Restore(once.reg, bs, denied)} :
                      twice.reg = once.reg /\ Len(twice.errors) = Len(once.errors)
                /\ \A other \in Reorderings(bs) :
                      \E x \in {Restore(reg, other, denied)} :
                          x.reg = once.reg /\ Len(x.errors) = Len(once.errors)

C15_Witness ==
    /\ pc = "idle"
    /\ trail = <<"CreateAll", "Restore", "Restore">>
    /\ reg # pre
    /\ \E i, j \in 1..Len(ra.loaded) :
          /\ i < j
          /\ KeyOf(ra.loaded[i].Entry) = KeyOf(ra.loaded[j].Entry)
          /\ ~ra.loaded[i].Existed
          /\ ra.loaded[j].Existed

\* a step in which RemoveAll runs right after a RemoveAll that deleted the file
SecondRemoveAll ==
    /\ RanRemoveAll
    /\ trail = <<"CreateAll", "RemoveAll">>
    /\ ~file.exists

\* C16 (as claimed): the second of two RemoveAll runs finds no backup file,
\* returns no error and leaves the registry exactly as the first run left it.
C16_SecondRemoveAllNoChange ==
    [][SecondRemoveAll =>
          /\ ~ra'.found
          /\ ra'.err = ""
          /\ reg' = reg]_vars

\* C16 (amended): the second run finds no backup file and restores nothing;
\* it returns an error only when a deletion is refused; it deletes every
\* named value of the catalog that the first run left or restored, touches no
\* other value, creates no key, leaves no backup file, and a further run
\* changes nothing more.
C16_SecondRemoveAllBestEffort ==
    [][SecondRemoveAll =>
          /\ ~ra'.found /\ ra'.loaded = <<>> /\ ra'.restored = <<>>
          /\ denied = NoFaults => ra'.err = ""
          /\ file' = NoFile
          /\ \A s \in NamedSlots :
                reg'.vals[s] = NoValue \/ SlotKey(s) \in denied.set \cup denied.open
          /\ \A s \in OtherSlots : reg'.vals[s] = reg.vals[s]
          /\ reg'.keys \subseteq reg.keys
          /\ RemoveAll(regMgr, reg', file', denied, TRUE).reg = reg'
          /\ RemoveAll(regMgr, reg', file', denied, TRUE).err = ra'.err]_vars

C16_Witness ==
    /\ pc = "idle"
    /\ trail = <<"CreateAll", "RemoveAll", "RemoveAll">>
    /\ ~ra.found
    /\ ra.err = ""
    /\ ~file.exists
    /\ \E s \in NamedSlots : pre.vals[s] # NoValue
    /\ \A s \in NamedSlots : reg.vals[s] = NoValue
    /\ KLauncher \notin reg.keys

\* a step in which RemoveAll runs and loads no backup set
RemoveAllWithoutBackup == RanRemoveAll /\ LoadBackups(file).err # ""

\* C17 (as claimed): without a backup set the only registry mutations of
\* RemoveAll are deletions of named values of catalog entries, and the
\* deletion failures make its result.
C17_NoBackupOnlyValueDeletions ==
    [][RemoveAllWithoutBackup =>
          /\ reg'.keys = reg.keys
          /\ \A s \in NamedSlots : reg'.vals[s] \in {reg.vals[s], NoValue}
          /\ \A s \in OtherSlots : reg'.vals[s] = reg.vals[s]
          /\ ra'.restored = <<>>
          /\ ra'.err # "" <=> Len(ra'.errors) > 0]_vars

\* C17 (amended): without a backup set RemoveAll writes and restores nothing
\* and changes no value but the named values of catalog entries, which it
\* deletes; after that it deletes the service-owned keys that hold no value;
\* it creates no key; the failed deletions make its result.
C17_NoBackupDeletionsAndPruning ==
    [][RemoveAllWithoutBackup =>
          /\ \A s \in NamedSlots : reg'.vals[s] \in {reg.vals[s], NoValue}
          /\ \A s \in OtherSlots : reg'.vals[s] = reg.vals[s]
          /\ reg'.keys \subseteq reg.keys
          /\ \A k \in reg.keys \ reg'.keys :
                k[2] \in serviceSpecificPaths /\ ReadValueNames(reg', k) = {}
          /\ ~ra'.found /\ ra'.restored = <<>>
          /\ ra'.err # "" <=> Len(ra'.errors) > 0
          /\ "failed to delete" \in SeqRange(ra'.errors) <=>
                \E s \in NamedSlots :
                    /\ reg.vals[s] # NoValue
                    /\ OpenKeyForWrite(reg, SlotKey(s), denied)
                    /\ SlotKey(s) \in denied.set]_vars

C17_Witness ==
    /\ pc = "idle"
    /\ trail = <<"CreateAll", "RemoveAll">>
    /\ ~ra.found
    /\ ra.err = ""
    /\ ~file.exists
    /\ \A s \in NamedSlots : reg.vals[s] = NoValue
    /\ \E s \in OtherSlots : pre.vals[s] # NoValue /\ reg.vals[s] = pre.vals[s]
    /\ KAllowList \in reg.keys
    /\ {KUser, KLauncher} \cap reg.keys # {KUser, KLauncher}

StopLeftLoop ==
    /\ pc = "idle"
    /\ \/ result = "service did not stop within timeout"
       \/ result = "" /\ "Service stopped successfully" \in warns

\* C19 (as claimed): when the loop of Stop is still waiting after the
\* deadline, every query made until the deadline having reported a state other
\* than Stopped, Stop returns the timeout error, not success, and it returns
\* no later than one poll interval after the deadline.
C19_StopTimeout ==
    (StopLeftLoop /\ clock > deadline) =>
        /\ result = "service did not stop within timeout"
        /\ clock <= deadline + PollInterval

\* C19 (amended): Stop returns the timeout error exactly when the last state
\* it was given is not Stopped, and then the deadline has passed and at least
\* WaitTimeout / PollInterval queries were made; a Stopped reported by the
\* last query is success even after the deadline; either way Stop returns no
\* later than one poll interval, plus what that sleep and query took beyond
\* it, after the deadline.
C19_StopTimeoutAfterLastPoll ==
    StopLeftLoop =>
        /\ result = "service did not stop within timeout" <=> status # "Stopped"
        /\ result = "service did not stop within timeout" =>
              /\ clock > deadline
              /\ polls >= WaitTimeout \div PollInterval
        /\ clock <= deadline + PollInterval + MaxLag

C19_Witness ==
    /\ pc = "idle"
    /\ result = "service did not stop within timeout"
    /\ status = "StopPending"
    /\ svc = "StopPending"
    /\ clock > deadline
    /\ polls > WaitTimeout \div PollInterval

\* the most queries a wait loop makes
MaxPolls == (WaitTimeout \div PollInterval) + 1

StopWaiting == pc \in {"stop_loop", "stop_sleep"}
RemoveWaiting == pc \in {"remove_loop", "remove_sleep"}

\* C20: whatever states and failures the queries report, the wait loops of
\* Stop and Remove make at most WaitTimeout / PollInterval + 1 queries, and a
\* loop that is entered is left: Stop returns and Remove goes on to delete the
\* service.
C20_PollLoopsTerminate ==
    /\ [](polls <= MaxPolls)
    /\ StopWaiting ~> (pc = "idle")
    /\ RemoveWaiting ~> (pc = "remove_delete")

C20_Witness ==
    /\ pc = "remove_delete"
    /\ polls = MaxPolls
    /\ "Service did not stop within timeout" \in warns
    /\ status # "Stopped"

\* Remove is between its stop control and its delete-service call
RemoveStopping == pc \in {"remove_stop", "remove_loop", "remove_sleep"}

\* s.Delete() has been called: it succeeded or its error was returned
DeleteIssued ==
    \/ pc = "remove_registry"
    \/ pc = "idle" /\ result = "failed to delete service"

\* C21: between the stop control and the deletion Remove never returns and
\* sets no error: a failed stop control, a failed status query and the expiry
\* of the deadline each add a warning and lead on towards s.Delete(); the
\* service definition is still there when s.Delete() is reached, and once
\* Remove has opened the service the delete-service call is issued.
C21_RemoveDeletesAfterStop ==
    /\ [][RemoveStopping =>
            /\ pc' \in {"remove_loop", "remove_sleep", "remove_delete"}
            /\ result' = result
            /\ svc' # "NotInstalled"
            /\ warns \subseteq warns'
            /\ (pc = "remove_stop" /\ status' = "none") =>
                  "Failed to stop service" \in warns'
            /\ (pc = "remove_sleep" /\ status' = "none") =>
                  (pc' = "remove_delete" /\ "Failed to query service status" \in warns')
            /\ (pc = "remove_loop" /\ status # "Stopped" /\ clock > deadline) =>
                  (pc' = "remove_delete" /\ "Service did not stop within timeout" \in warns')]_vars
    /\ RemoveStopping ~> DeleteIssued

C21_Witness ==
    /\ pc = "remove_registry"
    /\ svc = "NotInstalled"
    /\ "Failed to stop service" \in warns
    /\ "Service did not stop within timeout" \in warns
    /\ status # "Stopped"
    /\ clock > deadline

\* Remove is past its connect and has not yet deleted the service
RemoveBeforeRegistry == pc \in {"remove_open", "remove_stop", "remove_wait", "remove_delete"}

\* C22: Remove reaches regMgr.RemoveAll() only by a successful s.Delete():
\* the connect, the opening of the service, the stop, the wait and the
\* deletion leave the registry, the backup file and the record of manager
\* operations as they are, and when Remove returns from one of them it
\* returns the error of the opening or of the deletion (from the connect,
\* the error of the connect).
C22_RemoveAllOnlyAfterDelete ==
    [][/\ pc' = "remove_registry" =>
              (pc = "remove_delete" /\ svc # "NotInstalled" /\ svc' = "NotInstalled")
       /\ (RemoveConnect \/ RemoveBeforeRegistry) =>
              (reg' = reg /\ file' = file /\ trail' = trail /\ ra' = ra)
       /\ (RemoveConnect /\ pc' = "idle") =>
              result' = "failed to connect to service manager"
       /\ (RemoveBeforeRegistry /\ pc' = "idle") =>
              /\ result' \in {"service is not installed", "failed to delete service"}
              /\ result' = "service is not installed" <=> svc = "NotInstalled"
              /\ svc' = svc]_vars

C22_Witness ==
    /\ pc = "idle"
    /\ result = "failed to delete service"
    /\ svc # "NotInstalled"
    /\ trail = <<"CreateAll">>
    /\ file.exists
    /\ reg # pre

\* C23: the registry phase of Remove, entered with the service deleted, ends
\* Remove with success whatever RemoveAll returned: an error of RemoveAll
\* (failed restorations, prunings or deletion of the backup file) is logged as
\* the warning "Some registry entries failed to restore", exactly then, and
\* the service stays deleted.
C23_RemoveSucceedsDespiteRegistry ==
    [][pc = "remove_registry" =>
          /\ svc = "NotInstalled" /\ svc' = "NotInstalled"
          /\ pc' = "idle"
          /\ result' = ""
          /\ ra'.err # "" <=> "Some registry entries failed to restore" \in warns'
          /\ warns \subseteq warns']_vars

C23_Witness ==
    /\ pc = "idle"
    /\ result = ""
    /\ svc = "NotInstalled"
    /\ trail = <<"CreateAll", "RemoveAll">>
    /\ ra.found
    /\ Len(ra.restored) > 0
    /\ ra.err = "errors during registry cleanup"
    /\ "Some registry entries failed to restore" \in warns

\* Install is between regMgr.CreateAll() and its return
InstallAfterCreateAll == pc \in {"install_connect", "install_open", "install_create", "install_start"}

\* C24: whatever CreateAll returns (failed entries, a backup set that could
\* not be saved), Install logs it as a warning, exactly when it is an error,
\* and goes on to the connect; the errors Install returns afterwards are those
\* of the connect, of the already-exists check and of the creation, never the
\* one of the registry; and when the connect succeeds, the service does not
\* exist and its creation succeeds, Install returns success.
C24_RegistryFailureNotFatal ==
    [][/\ pc = "install_apply" =>
              /\ pc' = "install_connect"
              /\ result' = result
              /\ ca'.err # "" <=> "Some registry entries failed to create" \in warns'
       /\ (InstallAfterCreateAll /\ pc' = "idle" /\ result' # "") =>
              /\ result' \in {"failed to connect to service manager",
                              "service already exists",
                              "failed to create service"}
              /\ pc # "install_start"
       /\ (pc = "install_create" /\ svc' # svc) => pc' = "install_start"
       /\ pc = "install_start" => (pc' = "idle" /\ result' = "")]_vars

C24_Witness ==
    /\ pc = "idle"
    /\ result = ""
    /\ svc = "Running"
    /\ trail = <<"CreateAll">>
    /\ Len(ca.errors) > 0
    /\ ca.err = "errors during registry creation"
    /\ "Some registry entries failed to create" \in warns

\* Install is at one of the three steps whose failure is compensated
InstallBeforeCreation == pc \in {"install_connect", "install_open", "install_create"}

\* C25: Install reaches the connect only from a completed CreateAll, the
\* record of manager operations then holding that CreateAll alone; a return
\* from the connect, from the already-exists check or from the creation
\* carries the error of that step, comes after exactly one RemoveAll, and
\* leaves the service manager as it was; the steps that go on run no manager
\* operation, and after the creation has succeeded neither the registry nor
\* the backup file is touched and no RemoveAll is run.
C25_InstallSaga ==
    [][/\ pc' = "install_connect" => (pc = "install_apply" /\ trail' = <<"CreateAll">>)
       /\ (InstallBeforeCreation /\ pc' = "idle") =>
              /\ trail = <<"CreateAll">>
              /\ trail' = <<"CreateAll", "RemoveAll">>
              /\ svc' = svc
              /\ pc = "install_connect" <=> result' = "failed to connect to service manager"
              /\ pc = "install_open" <=> result' = "service already exists"
              /\ pc = "install_create" <=> result' = "failed to create service"
              /\ pc = "install_open" => svc # "NotInstalled"
              /\ pc = "install_create" => svc = "NotInstalled"
       /\ (InstallBeforeCreation /\ pc' # "idle") =>
              (trail' = trail /\ reg' = reg /\ file' = file /\ ra' = ra)
       /\ pc = "install_start" =>
              /\ svc # "NotInstalled"
              /\ trail' = trail /\ reg' = reg /\ file' = file /\ ra' = ra
              /\ result' = ""]_vars

C25_Witness ==
    /\ pc = "idle"
    /\ result = "failed to create service"
    /\ svc = "NotInstalled"
    /\ trail = <<"CreateAll", "RemoveAll">>
    /\ Len(ca.backups) = NEntries
    /\ ra.found
    /\ ~file.exists

\* the catalog indices on which the environment makes create fail
FailedIdx == {i \in 1..NEntries : FailsAt(Catalog[i])}

\* CreateAll was the last manager operation
CreateAllReturned == pc = "idle" /\ trail = <<"CreateAll">>

\* C26: CreateAll attempts every entry of the catalog, in declaration order,
\* whatever happened to the earlier ones: the failures and the backups it
\* returns are those of the failing and of the other entries, each list in
\* catalog order; every entry that does not fail has its key and its value in
\* the registry, also when an earlier entry failed, and its backup says the key
\* existed when an earlier entry had created it; the error is non-nil exactly
\* when an entry failed or the backup file could not be written; and the
\* backup set is returned, and saved when the file can be written, in every
\* case.
C26_CreateAllAttemptsEvery ==
    CreateAllReturned =>
        /\ Len(ca.errors) = Cardinality(FailedIdx)
        /\ Len(ca.backups) = NEntries - Cardinality(FailedIdx)
        /\ \A i \in FailedIdx :
              \E n \in 1..Len(ca.errors) :
                  /\ n = Cardinality({j \in FailedIdx : j < i}) + 1
                  /\ ca.errors[n].Path = Catalog[i].Path
                  /\ ca.errors[n].Name = Catalog[i].Name
        /\ \A i \in (1..NEntries) \ FailedIdx :
              /\ \E n \in 1..Len(ca.backups) :
                    /\ n = Cardinality({j \in (1..NEntries) \ FailedIdx : j < i}) + 1
                    /\ SlotOf(ca.backups[n].Entry) = SlotOf(Catalog[i])
                    /\ ca.backups[n].Existed <=>
                          \/ KeyOf(Catalog[i]) \in pre.keys
                          \/ \E j \in 1..(i - 1) :
                                /\ KeyOf(Catalog[j]) = KeyOf(Catalog[i])
                                /\ KeyOf(Catalog[j]) \notin denied.open
              /\ KeyOf(Catalog[i]) \in reg.keys
              /\ Catalog[i].Name # "" =>
                    reg.vals[SlotOf(Catalog[i])] =
                        [type |-> Catalog[i].Type, data |-> Catalog[i].Value.v]
        /\ ca.err # "" <=> (FailedIdx # {} \/ denied.nosave)
        /\ ca.err = "failed to save backups" <=> denied.nosave
        /\ (~denied.nosave /\ ~file.malformed) =>
              (file.exists /\ Len(file.recs) = Len(ca.backups))

C26_Witness ==
    /\ CreateAllReturned
    /\ FailedIdx = {1, 2, 3}
    /\ ca.err = "errors during registry creation"
    /\ Len(ca.errors) = 3
    /\ Len(ca.backups) = NEntries - 3
    /\ reg.vals[SlotOf(Catalog[NEntries])] # NoValue
    /\ KNetOff \in reg.keys

\* REG_MULTI_SZ stands for the value types writeValue does not support
MULTI_SZ == "MULTI_SZ"

\* one value of every dynamic type, and the types, writeValue is tried with
SampleValues ==
    {GoNil, GoString("old"), GoUint32("1"), GoUint64("1"), GoBytes("x"), GoFloat64("8080")}
SampleTypes == {SZ, EXPAND_SZ, BINARY, DWORD, QWORD, MULTI_SZ}

\* the catalog with a string declared as a DWORD in its second entry
MismatchedManager == [regMgr EXCEPT !.entries[2].Value = GoString("8080")]

\* a backup that Restore writes back and whose value lost its declared type
MismatchedBackup(b) ==
    /\ b.Existed
    /\ b.Entry.Name # ""
    /\ b.Entry.Value # GoNil
    /\ b.Entry.Value.kind # kindFor(b.Entry.Type)

\* C27: writeValue, tried on the current registry with a value of every
\* dynamic type under every value type, fails with "invalid type" or
\* "unsupported" and leaves the registry as it is exactly when the type is
\* not one of the five or the value is not of the type's variant (otherwise
\* its outcome is that of the set-value call); CreateAll on a catalog with a
\* mismatched entry records that failure, writes nothing for the entry and
\* still applies the following entries; and Restore records a backup whose
\* value does not match its type as failed, leaves the value as it is and
\* still restores the backups after it.
C27_TypeMismatchNoWrite ==
    /\ \A v \in SampleValues, t \in SampleTypes :
          \A w \in {writeValue(reg, SlotOf(Catalog[2]), v, t, denied)} :
              /\ w.err \in {"invalid type", "unsupported"} <=>
                    (kindFor(t) = "unsupported" \/ v.kind # kindFor(t))
              /\ w.err = "unsupported" <=> t \notin {SZ, EXPAND_SZ, BINARY, DWORD, QWORD}
              /\ w.err \in {"invalid type", "unsupported"} => w.reg = reg
              /\ (w.err = "" /\ v.kind = kindFor(t)) =>
                    w.reg.vals[SlotOf(Catalog[2])] = [type |-> t, data |-> v.v]
    /\ \A x \in {CreateAll(MismatchedManager, reg, file, denied, TRUE)} :
          /\ Len(x.errors) + Len(x.backups) = NEntries
          /\ KLauncher \notin denied.open =>
                /\ \E n \in 1..Len(x.errors) :
                      /\ x.errors[n].Name = "ServerPort"
                      /\ x.errors[n].err = "failed to write value"
                /\ x.reg.vals[SlotOf(Catalog[2])] = reg.vals[SlotOf(Catalog[2])]
          /\ ~FailsAt(Catalog[3]) =>
                x.reg.vals[SlotOf(Catalog[3])] = [type |-> DWORD, data |-> "1"]
    /\ ra.found =>
          \A j \in 1..Len(ra.loaded) :
              MismatchedBackup(ra.loaded[j]) =>
                  /\ j \in SeqRange(ra.restored) \/ KeyOf(ra.loaded[j].Entry) \in denied.open
                  /\ \A k \in (j + 1)..Len(ra.loaded) :
                        (/\ ~ra.loaded[k].Existed
                         /\ ra.loaded[k].Entry.Name # ""
                         /\ KeyOf(ra.loaded[k].Entry) \notin denied.open \cup denied.set)
                            => reg.vals[SlotOf(ra.loaded[k].Entry)] = NoValue

C27_Witness ==
    /\ pc = "idle"
    /\ ra.found
    /\ Len(ra.loaded) = NEntries
    /\ MismatchedBackup(ra.loaded[2])
    /\ ra.loaded[2].Entry.Value.kind = "float64"
    /\ 2 \in SeqRange(ra.restored)
    /\ reg.vals[SlotOf(Catalog[2])] = [type |-> DWORD, data |-> "8080"]
    /\ ~ra.loaded[NEntries].Existed
    /\ reg.vals[SlotOf(Catalog[NEntries])] = NoValue

\* the operation of a command has returned
CommandReturned == pc = "idle" /\ result # "none"

\* the errors Install, Remove, Start and Stop return
OperationErrors ==
    {"failed before registry",
     "failed to connect to service manager",
     "service already exists",
     "failed to create service",
     "service is not installed",
     "failed to delete service",
     "could not access service",
     "could not start service",
     "could not send stop control",
     "service did not stop within timeout",
     "could not query service status"}

\* what Remove logs as a warning about the stop of the service
StopWarnings ==
    {"Failed to stop service", "Service did not stop within timeout",
     "Failed to query service status"}

\* C28: when the operation of install, remove, uninstall, start or stop has
\* returned, the process exits with status 1, the fatal message logged and
\* nothing printed, exactly when the operation returned an error, under both
\* logger levels; otherwise it exits with status 0 and prints the success
\* message. What was only a warning is not the error returned: after a failed
\* first start or a failed restoration in Remove the result is success, after
\* a failed stop, query or wait in Remove it is success or the error of the
\* deletion, and after a partial failure of the registry in Install it is
\* success or the error of the connect, of the existence check or of the
\* creation.
C28_CommandOutcome ==
    CommandReturned =>
        /\ \A c \in Commands, lvl \in LoggerLevels :
              \A h \in {handleCommand(c, result, lvl)} :
                  /\ h.exit # 0 <=> result # ""
                  /\ h.exit \in {0, 1}
                  /\ h.exit # 0 => (h.logged = FatalMessage(c) /\ h.stdout = "")
                  /\ h.exit = 0 => (h.logged = "" /\ h.stdout = SuccessMessage(c))
        /\ result # "" => result \in OperationErrors
        /\ "Service created but failed to start" \in warns => result = ""
        /\ "Some registry entries failed to restore" \in warns => result = ""
        /\ warns \cap StopWarnings # {} => result \in {"", "failed to delete service"}
        /\ "Some registry entries failed to create" \in warns =>
              result \in {"", "failed to connect to service manager",
                          "service already exists", "failed to create service"}

C28_Witness ==
    /\ CommandReturned
    /\ result = ""
    /\ svc = "NotInstalled"
    /\ "Service did not stop within timeout" \in warns
    /\ "Some registry entries failed to restore" \in warns
    /\ handleCommand("remove", result, LevelInfo).exit = 0
    /\ handleCommand("remove", result, LevelInfo).stdout = "Service RDPLauncher removed successfully"

\* C29: when Install, Remove, Start or Stop returns, with or without an error,
\* no registry key handle, service-manager connection or service handle is
\* open and no deferred release is pending; CreateAll and RemoveAll (which
\* runs Restore) leave no key handle open inside an operation either, and
\* what an operation in flight holds is what its deferred calls will release.
C29_HandlesReleased ==
    /\ handles.key = 0
    /\ pc = "idle" => handles = NoHandles /\ deferred = <<>>
    /\ RunDeferred(handles, deferred) = NoHandles

\* Install returned after finding the service, having closed the service
\* handle, rolled the registry back and disconnected
C29_Witness ==
    /\ CommandReturned
    /\ result = "service already exists"
    /\ handles = NoHandles

\* an entry with an empty value name under key k, as NewManager writes one
KeyOnly(k) == Entry(k[1], k[2], "", GoString(""), SZ)

\* a manager whose catalog is the key-only entry of k
KeyOnlyManager(k) == [regMgr EXCEPT !.entries = <<KeyOnly(k)>>]

\* the backup files RemoveAll can meet for that catalog: none, or the one
\* CreateAll saved when the key was absent or present
KeyOnlyFiles(k) ==
    {NoFile} \cup
    {SaveBackups(<<[Entry |-> KeyOnly(k), Existed |-> existed]>>, NoFile, TRUE).file :
        existed \in BOOLEAN}

\* RemoveAll loses the key of a key-only catalog only by pruning it
PrunedOnly(k, f) ==
    \A x \in {RemoveAll(KeyOnlyManager(k), reg, f, denied, TRUE)} :
        /\ x.reg.vals = reg.vals
        /\ (k \in reg.keys /\ k \notin x.reg.keys) =>
                /\ k[2] \in serviceSpecificPaths
                /\ ReadValueNames(reg, k) = {}

\* C30: for an entry with an empty value name, under any catalogued key and in
\* every reachable registry and environment, create leaves every named value
\* as it was and, when it succeeds, the key exists; restore of its backup
\* and the first phase of RemoveAll change no named value and remove no key;
\* RemoveAll as a whole loses the key only when the pruning step finds it
\* service-specific and empty. The key-only entry of the real catalog is not
\* service-specific, so no operation of the manager ever removes its key.
C30_KeyOnlyEntries ==
    /\ [](\A k \in CatalogKeys :
            /\ \A c \in {create(reg, KeyOnly(k), denied)} :
                /\ c.reg.vals = reg.vals
                /\ reg.keys \subseteq c.reg.keys
                /\ c.err = "" => k \in c.reg.keys
            /\ \A existed \in BOOLEAN :
                \A x \in {restore(reg, [Entry |-> KeyOnly(k), Existed |-> existed], denied)} :
                    /\ x.reg.vals = reg.vals
                    /\ reg.keys \subseteq x.reg.keys
            /\ removeValuesLoop(<<KeyOnly(k)>>, 1, reg, <<>>, denied).reg = reg
            /\ \A f \in KeyOnlyFiles(k) : PrunedOnly(k, f))
    /\ [](Catalog[8] = KeyOnly(KNetOff))
    /\ [](CreateAllReturned /\ 8 \notin FailedIdx => KNetOff \in reg.keys)
    /\ [][(KNetOff \in reg.keys) => (KNetOff \in reg'.keys)]_vars

\* CreateAll made the key of the catalog's key-only entry, which was absent,
\* and in the registry it left there is an empty service-specific key that
\* RemoveAll prunes for a key-only catalog
C30_Witness ==
    /\ CreateAllReturned
    /\ 8 \notin FailedIdx
    /\ KNetOff \notin pre.keys
    /\ KNetOff \in reg.keys
    /\ \E k \in CatalogKeys :
        /\ k \in reg.keys
        /\ k \notin RemoveAll(KeyOnlyManager(k), reg, NoFile, denied, TRUE).reg.keys

\* arguments NewManager is built from
SampleInstallPaths == {ConfigNew.InstallPath, "D:\\Apps\\RDPLauncher"}
SamplePorts == {ParseUint(t) : t \in DecimalTexts \cup {"http"}}
SampleDataDirs == {ConfigNew.DataDirectory, "D:\\Data"}

\* the root, path, name and type of each entry, in order
Shape(m) ==
    [i \in 1..Len(m.entries) |->
        <<m.entries[i].Root, m.entries[i].Path, m.entries[i].Name, m.entries[i].Type>>]

\* C31: for every install path, port and data directory NewManager builds
\* the same nine entries in the same order (only the values of InstallPath
\* and ServerPort and the backup path follow the arguments), the dynamic type
\* of every value is the one its registry type demands, and so in no
\* reachable registry or environment does writeValue refuse an entry of a
\* fresh catalog for its type; CreateAll on the catalog reports only the
\* entries the environment makes fail.
C31_CatalogWellTyped ==
    /\ \A ip \in SampleInstallPaths, port \in SamplePorts, dd \in SampleDataDirs :
        \A m \in {NewManager(ip, port, dd)} :
            /\ Len(m.entries) = 9
            /\ Shape(m) = Shape(regMgr)
            /\ m.entries[1].Value = GoString(ip)
            /\ m.entries[2].Value = GoUint32(port)
            /\ \A i \in 3..9 : m.entries[i].Value = Catalog[i].Value
            /\ m.backupPath = <<dd, "registry_backup.json">>
            /\ \A i \in 1..9 :
                /\ m.entries[i].Value.kind = kindFor(m.entries[i].Type)
                /\ m.entries[i].Name # "" =>
                    writeValue(CreateKey(reg, KeyOf(m.entries[i]), denied).reg,
                               SlotOf(m.entries[i]), m.entries[i].Value,
                               m.entries[i].Type, denied).err
                        \notin {"invalid type", "unsupported"}
    /\ CreateAllReturned => Len(ca.errors) = Cardinality(FailedIdx)

\* CreateAll ran on the fresh catalog in an environment without faults and
\* wrote all nine entries
C31_Witness ==
    /\ CreateAllReturned
    /\ FailedIdx = {}
    /\ ca.err = ""
    /\ Len(ca.backups) = NEntries
    /\ \A i \in 1..NEntries :
        Catalog[i].Name # "" =>
            reg.vals[SlotOf(Catalog[i])] = [type |-> Catalog[i].Type, data |-> Catalog[i].Value.v]

\* the file invocation i wrote
Saved(i) == SaveBackups(inv[i].backups, NoFile, TRUE).file

\* invocation i is an Install between its SaveBackups and the load of its
\* rollback, or its return
AfterSave(i) == inv[i].op = "Install" /\ inv[i].pc \in {"open", "createsvc", "load"}

\* the catalog values that replaced a value present before any invocation
Replaced ==
    {n \in 1..NEntries :
        /\ Catalog[n].Name # ""
        /\ pre.vals[SlotOf(Catalog[n])] # NoValue
        /\ reg.vals[SlotOf(Catalog[n])] = [type |-> Catalog[n].Type, data |-> Catalog[n].Value.v]
        /\ reg.vals[SlotOf(Catalog[n])] # pre.vals[SlotOf(Catalog[n])]}

\* no backup set holds the earlier value of catalog entry n: the file is gone,
\* or its record of n is a snapshot of the value the catalog wrote
Unrecorded(n) ==
    \/ ~file.exists
    \/ \A k \in 1..Len(file.recs) :
        <<file.recs[k].RootKey, file.recs[k].Path, file.recs[k].Name>> = SlotOf(Catalog[n])
            => file.recs[k].Value = Marshal(Catalog[n].Value)

\* C32: nothing makes an invocation wait for the other before it writes,
\* reads or deletes the backup file; and whenever an Install that saved its
\* backups finds, before its own load or return, a file that is not the one
\* it wrote, the other invocation has overwritten it with its own backups or
\* deleted it at the end of its RemoveAll.
C32_BackupFileUnprotected ==
    \A i \in Invocations :
        /\ inv[i].pc \in {"save", "load", "delete"} => ENABLED RaceStep(i)
        /\ (AfterSave(i) /\ file # Saved(i)) =>
            \/ /\ inv[Other(i)].op = "Install"
               /\ inv[Other(i)].pc \notin {"idle", "save"}
               /\ file = Saved(Other(i))
            \/ /\ inv[Other(i)].pc = "done"
               /\ inv[Other(i)].op \in {"Install", "Remove"}
               /\ ~file.exists

\* an Install wrote catalog values over earlier ones and saved their backups;
\* the other invocation, which has returned, then deleted or overwrote the
\* file; the Install is about to create the service and succeed, and no
\* backup set records the earlier value
C32_Witness ==
    \E i \in Invocations :
        /\ AfterSave(i)
        /\ inv[i].pc = "createsvc"
        /\ svc = "NotInstalled"
        /\ inv[Other(i)].pc = "done"
        /\ file # Saved(i)
        /\ \E n \in Replaced : Unrecorded(n)

\* C33 (as claimed): while the service is installed and no command runs, the
\* backup set an Install persisted is still there and loadable; in particular
\* an Install that found the service installed left it in place.
C33_BackupSurvivesReinstall ==
    (pc = "idle" /\ svc # "NotInstalled") =>
        /\ file.exists
        /\ LoadBackups(file).err = ""

\* C34 (as claimed): RemoveAll goes without a backup set exactly when the
\* backup file is absent, and with a file that exists but cannot be parsed it
\* deletes no catalog value that is present.
C34_BestEffortOnlyWhenAbsent ==
    [][ManagerRemoveAll =>
        /\ ~ra'.found <=> ~file.exists
        /\ (file.exists /\ file.malformed) =>
            \A s \in NamedSlots : reg.vals[s] # NoValue => reg'.vals[s] # NoValue]_vars

\* Stop has returned nil, having logged its success
StopSucceeded ==
    pc = "idle" /\ result = "" /\ "Service stopped successfully" \in warns

\* C35: Stop returns success only when the last status it was given, by the
\* stop control or by a query, has the state Stopped; a stop control that is
\* refused and a status query that fails end Stop at once with their own
\* error, and the only other error of the wait is the timeout.
C35_StopSuccessMeansStopped ==
    /\ [](StopSucceeded => status = "Stopped")
    /\ [][(pc = "stop_control" /\ pc' # "stop_loop") =>
            (pc' = "idle" /\ result' = "could not send stop control")]_vars
    /\ [][(pc = "stop_sleep" /\ pc' # "stop_loop") =>
            (pc' = "idle" /\ result' = "could not query service status")]_vars
    /\ [][(pc = "stop_loop" /\ pc' = "idle" /\ status # "Stopped") =>
            (result' = "service did not stop within timeout")]_vars

\* Stop succeeded on a Stopped that a query reported after the stop control
\* had answered StopPending
C35_Witness ==
    /\ StopSucceeded
    /\ status = "Stopped"
    /\ polls > 0

\* Install returned before it built the registry manager
InstallFailedEarly == pc = "idle" /\ result = "failed before registry"

\* C36: when os.Executable or the creation of the data directory fails,
\* Install returns an error at once: the step changes neither the registry
\* nor the backup file nor the service, it opens no connection to the service
\* manager, and nothing of Install runs after it.
C36_EarlyFailureTouchesNothing ==
    /\ [][(InstallBegin /\ pc' = "idle") =>
            /\ result' \notin {"", "none"}
            /\ reg' = reg
            /\ file' = file
            /\ svc' = svc
            /\ handles' = NoHandles
            /\ deferred' = <<>>]_vars
    /\ [](InstallFailedEarly => handles = NoHandles /\ warns = {})
    /\ [][(pc = "idle" /\ pc' \in {"install_connect", "install_open", "install_create",
                                    "install_start"}) => FALSE]_vars

\* Install failed early on a registry that holds none of the catalog's values
\* and without a backup file
C36_Witness ==
    /\ InstallFailedEarly
    /\ ~file.exists
    /\ \A n \in 1..NEntries :
        Catalog[n].Name # "" =>
            reg.vals[SlotOf(Catalog[n])] # [type |-> Catalog[n].Type, data |-> Catalog[n].Value.v]

\* the place of a status in the life of the service
Rank(st) ==
    CASE st = "StartPending" -> 1
      [] st = "Running" -> 2
      [] st = "StopPending" -> 3
      [] OTHER -> 0

Reported(st) == \E n \in 1..Len(changes) : changes[n] = st

\* C37: Execute reports StartPending first, Running only after it launched
\* the goroutine that starts the HTTP server, and StopPending once, as the
\* last status before it returns; it never reports Stopped; and whether the
\* loop ends by a stop or shutdown request or by a failure of the server,
\* Execute goes on to report StopPending and returns.
C37_StatusOrder ==
    /\ [](mode = "service" =>
            /\ \A n \in 1..Len(changes) : Rank(changes[n]) # 0
            /\ \A n, k \in 1..Len(changes) : n < k => Rank(changes[n]) <= Rank(changes[k])
            /\ changes # <<>> => changes[1] = "StartPending"
            /\ Cardinality({n \in 1..Len(changes) : changes[n] \in {"StartPending", "StopPending"}}) <= 2
            /\ Reported("Running") => (gpc # "none" /\ changes[2] = "Running")
            /\ Reported("StopPending") <=> xpc = "returned"
            /\ xpc = "returned" => (changes[Len(changes)] = "StopPending" /\ xres = "0"))
    /\ (mode = "service" /\ xpc = "leave") ~> (xpc = "returned")
    /\ (mode = "service" /\ gpc = "failed") ~> (xpc = "returned")

\* Execute answered an Interrogate, then the server failed and Execute left
\* the loop, reported StopPending and returned
C37_Witness ==
    /\ mode = "service"
    /\ xpc = "returned"
    /\ changes = <<"StartPending", "Running", "Running", "StopPending">>
    /\ "Server failed" \in xlog
    /\ shut = 0

\* Execute took a control request from the channel r
RequestStep == reqs' # reqs

\* C38: a request that ends the loop (Stop or Shutdown) has server.Shutdown
\* called in the same step, before StopPending is reported, and StopPending
\* after a stop request means Shutdown was called; a request that does not
\* end the loop (Interrogate, or one Execute does not know) calls no Shutdown
\* and leaves the last reported status as it was, Interrogate sending it once
\* more and the unknown request only adding a warning to the log.
C38_RequestHandling ==
    /\ [][(RequestStep /\ xpc' # "loop") =>
            /\ xpc' = "leave"
            /\ shut' = shut + 1
            /\ changes' = changes
            /\ "Service stop requested" \in xlog']_vars
    /\ [][(RequestStep /\ xpc' = "loop") =>
            /\ shut' = shut
            /\ \/ changes' = Append(changes, changes[Len(changes)]) /\ xlog' = xlog
               \/ /\ changes' = changes
                  /\ xlog' = xlog \cup {"Unexpected service control request"}]_vars
    /\ []((Reported("StopPending") /\ "Service stop requested" \in xlog) => shut = 1)
    /\ []("Service stop requested" \in xlog <=> (mode = "service" /\ shut = 1))

\* Execute echoed an Interrogate, logged a request it does not know, then
\* shut the server down on a stop request, reported StopPending and returned
C38_Witness ==
    /\ mode = "service"
    /\ xpc = "returned"
    /\ shut = 1
    /\ changes = <<"StartPending", "Running", "Running", "StopPending">>
    /\ "Unexpected service control request" \in xlog
    /\ "Service stop requested" \in xlog

\* Execute or RunDebug took the error from errChan
ErrorReceived == Len(errChan') < Len(errChan)

\* C39: the goroutine's send on errChan can always be taken when it is
\* reached, also after Execute or RunDebug has returned, and it is taken; the
\* channel never holds more than the one error. An error taken from the
\* channel ends the loop of Execute and makes RunDebug return the server
\* error, and an error that waits in the channel while the loop or the select
\* runs does not leave them running.
C39_ErrorSendCompletes ==
    /\ [](gpc = "failed" => (ENABLED GoSend /\ errChan = <<>>))
    /\ [](Len(errChan) <= 1)
    /\ (gpc = "failed") ~> (gpc = "exited")
    /\ [][ErrorReceived =>
            \/ mode = "service" /\ xpc = "loop" /\ xpc' = "leave"
            \/ mode = "debug" /\ xpc = "select" /\ xpc' = "returned"
                    /\ xres' = "server error"]_vars
    /\ (xpc = "loop" /\ errChan # <<>>) ~> (xpc = "returned")
    /\ (xpc = "select" /\ errChan # <<>>) ~> (xpc = "returned" /\ xres # "none")

\* the server failed, a stop request ended the loop before the error was
\* sent, Execute returned, and the goroutine then sent its error and ended
C39_Witness ==
    /\ mode = "service"
    /\ xpc = "returned"
    /\ shut = 1
    /\ gpc = "exited"
    /\ errChan = <<"server error">>

=============================================================================
